---- MODULE Spec2Model ----
(***************************************************************************)
(* Client-side orchestration of YAKS test runs (pkg/cmd/run.go): run with  *)
(* runTest / runTestGroup (configuration, temporary namespace, operator    *)
(* bootstrap, Pre and Post steps, the loop over the files, the deferred    *)
(* delete of the namespace), createAndRunTest with its create-or-update    *)
(* protocol against the cluster, the phase watcher / dev route watcher     *)
(* goroutine, the log follower and the wait point; the recursion of        *)
(* runTestGroup into subdirectories; skipStep, getRunConfig and the        *)
(* watcher's choice of its wait timeout as functions of their inputs.      *)
(*                                                                         *)
(* The cluster API server and the reconciling controller are the           *)
(* environment: the server keeps one object per name and checks            *)
(* resourceVersions on writes; the controller moves a Test's phase         *)
(* forward and leaves a Test in phase Updating alone.                      *)
(***************************************************************************)
EXTENDS Integers, Sequences, FiniteSets, TLC

\* ------------------------------------------------------------------ bounds

\* Longest list of entries of one directory.
MaxFiles == 2

\* Iterations of the dev route loop modelled beyond its ceiling (the loop of
\* the code has no exit; the model stops counting here).
MaxOverrun == 2

\* Longest list of Pre steps of a run configuration.
MaxSteps == 2

\* Longest list of Post steps of a run configuration.
MaxPostSteps == 1

\* Most role files listed in Operator.Roles.
MaxRoles == 1

\* The clauses of a step's If condition.
MaxClauses == 2

\* Longest timeout string, in atoms.
MaxDuration == 3

\* Most files in each of Runtime.Resources, o.Resources, o.PropertyFiles.
MaxResources == 1

\* The iteration ceiling of the dev route loop (waitTime > 1000).
RouteCeiling == 1000

\* ------------------------------------------------------------- data model

\* The v1alpha1.TestPhase values the controller writes (None is the zero
\* value, Updating is imposed by the client).
ControllerPhases == {"New", "Running", "Passed", "Failed", "Error", "Deleting"}

\* The controller only moves a Test forward.
Rank(p) ==
    CASE p = "None" -> 0
      [] p = "New" -> 1
      [] p = "Running" -> 2
      [] OTHER -> 3

\* Status.Results.Errors as the controller reports them with a phase.
ResultsOf(p) == IF p \in {"Failed", "Error"} THEN <<"failed">> ELSE <<>>

\* v1alpha1.TestStatus{}.
ZeroStatus == [phase |-> "None", results |-> <<>>]

\* The predicate handed to WaitCondition: true on a terminal phase.
IsTerminal(p) == p = "Deleting" \/ p = "Error" \/ p = "Passed" \/ p = "Failed"

\* Mutant: the predicate stores every phase it reads.
Observe_Any(old, p) == p

\* The predicate's side effect on the captured status variable.
Observe(old, p) == IF p # "None" THEN p ELSE old

\* TestPhase.AsError: an error for a failed or errored test only.
AsError(p) == IF p \in {"Failed", "Error"} THEN "status" ELSE "nil"

\* Source paths are short character sequences.
Alnum == {"a", "b", "A", "B"}

ToLower(c) ==
    CASE c = "A" -> "a"
      [] c = "B" -> "b"
      [] OTHER -> c

RECURSIVE SanitizeName(_)
\* kubernetes.SanitizeName: lower-cased, non-alphanumerics dropped.
SanitizeName(s) ==
    IF s = <<>> THEN <<>>
    ELSE IF Head(s) \in Alnum
         THEN <<ToLower(Head(s))>> \o SanitizeName(Tail(s))
         ELSE SanitizeName(Tail(s))

\* The entries a directory may hold, in the order ReadDir lists them (sorted
\* by file name).
DirEntries == << <<"-">>, <<"A">>, <<"a">> >>

DumpFormats == {"", "yaml", "json", "xml"}

\* File lists of a directory: distinct entries, in directory order.
FileLists ==
    {[k \in DOMAIN sel |-> DirEntries[sel[k]]] :
        sel \in {f \in UNION {[1..n -> DOMAIN DirEntries] : n \in 1..MaxFiles} :
                    \A i, j \in DOMAIN f : i < j => f[i] < f[j]}}

Slots == 1..(MaxFiles + 1)

\* A step list of the run configuration: of each step, whether skipStep lets
\* it run.
StepLists(max) ==
    UNION {[1..n -> {"run", "skip"}] : n \in 0..max}

\* The run configurations config.LoadConfig can return, as far as run.go
\* reads them.
RunConfigs ==
    [Temporary : BOOLEAN, AutoRemove : BOOLEAN, Recursive : BOOLEAN, Roles : 0..MaxRoles,
     Pre : StepLists(MaxSteps), Post : StepLists(MaxPostSteps)]

\* The configuration without temporary namespace, recursion, roles or steps.
PlainConfig ==
    [Temporary |-> FALSE, AutoRemove |-> FALSE, Recursive |-> FALSE, Roles |-> 0,
     Pre |-> <<>>, Post |-> <<>>]

\* What ReadDir tells of a directory entry: a file named *.feature, another
\* file, a directory, a directory named *.feature.
EntryKinds == {"feature", "other", "dir", "dir.feature"}

\* f.IsDir().
IsDir(kind) == kind \in {"dir", "dir.feature"}

\* strings.HasSuffix(f.Name(), FileSuffix).
HasSuffix(kind) == kind \in {"feature", "dir.feature"}

\* A subdirectory without entries, under the plain configuration.
NoSub == [files |-> <<>>, kinds |-> <<>>, cfg |-> PlainConfig]

\* The Instances on the cluster: the one named yaks in the invocation's
\* namespace (none, not global, global), and whether some Instance of another
\* namespace is global.
InstanceSetups == [local : {"none", "plain", "global"}, otherGlobal : BOOLEAN]

\* --------------------------------------------------------------- state

VARIABLES
    files,        \* the entries of the directory being run, in order
    opts,         \* runCmdOptions: Wait, Logs, Dev, DumpFormat
    cluster,      \* the Test objects held by the API server
    idx,          \* position of the group loop in files
    pc,           \* position of the main goroutine in createAndRunTest
    existed,      \* local: Create answered "already exists"
    clone,        \* local: the fetched copy (resourceVersion, status)
    calls,        \* the cluster calls of the current submission, in order
    call,         \* per createAndRunTest call: the locals its goroutines share
    ret,          \* what the latest createAndRunTest call returned
    results,      \* TestResults.Suites
    crashed,      \* a panic: the process is gone
    outer,        \* the frame of runTest / runTestGroup around the files
    env,          \* the cluster besides the Tests: Instances, the namespace
    tree,         \* the kinds of the entries, and what a subdirectory holds
    stack,        \* the runTestGroup frames waiting for a recursive call
    hook,         \* a skipStep call: the step's If, the host, the answer
    lookup,       \* a getRunConfig call: source, o.Namespace, file, answer
    timing,       \* the watcher's choice of its wait timeout
    loads         \* the files createAndRunTest loads after the source

\* The frame of runTest / runTestGroup:
\*   pc           position in the function
\*   dir          isDir(source): runTestGroup, else runTest
\*   cfg          the RunConfig
\*   deferPost    defer runSteps(runConfig.Post, ...) is registered
\*   deferDelete  defer deleteTempNamespace(...) is registered
\*   ops          for the record: the calls made outside createAndRunTest
\*   outcome      what run returned
\* The cluster besides the Tests:
\*   insts        the Instances (see InstanceSetups)
\*   ns           the temporary namespace: absent, present, deleted
\*   operator     an operator is installed in the temporary namespace
\* The directory tree:
\*   kinds        of each entry of the directory the run was invoked on
\*   sub          the entries of a subdirectory, their kinds (files only) and
\*                the configuration getRunConfig loads for it
\* A waiting frame keeps its frame, its entries and its position among them
\* and, for the record, the number of suites at the time of the call.
\* A skipStep call:
\*   If           step.If, a string of atoms
\*   goos         runtime.GOOS
\*   environ      the environment: pairs of name and value, one per name
\*   skip         what skipStep returned: none yet, skip, run, or panic
\*   clauses      for the record: the clauses the If string was written from
\* A getRunConfig call:
\*   source       the kind of source: remote file, directory, local file
\*   namespace    o.Namespace, the invocation's default namespace
\*   loaded       what config.LoadConfig answers: ok, and the configuration
\*   state        what getRunConfig returned: none yet, error, config
\*   config       the configuration returned
\* The watcher's choice of its wait timeout:
\*   flag         o.Timeout
\*   config       runConfig.Config.Timeout
\*   state        none yet, or waiting: WaitCondition was called
\*   wait         waitTimeout, in milliseconds
\*   logged       the parse error was printed
\* The files loaded after the source, in the order of the code (resources of
\* the configuration, resources, property files and the settings file of the
\* options):
\*   kind         which list names the file
\*   ok           loadData can read it
outerVars == <<outer, env, tree, stack, hook, lookup, timing, loads>>

vars == <<files, opts, cluster, idx, pc, existed, clone, calls, call, ret, results, crashed,
          outer, env, tree, stack, hook, lookup, timing, loads>>

\* The locals of one createAndRunTest call:
\*   test      the local Test (resourceVersion, status) main and watcher share
\*   status    the captured status variable
\*   err       what WaitCondition returned into the captured err
\*   ctxDone   the shared context is cancelled
\*   watcher   position of the watcher goroutine
\*   waitTime  the dev route loop's counter
\*   route     the dev route Get found an ingress endpoint
\*   follower  position of the log follower
\* and, for the record:
\*   pre       the Test was on the cluster when the call began
\*   baseRv    the status write that ended the call's reconciliation
\*   seenRv    the status write the watcher's last poll read
\*   seen      the last phase other than None a poll read
NoCall == [test |-> [rv |-> 0, status |-> ZeroStatus], status |-> "None", err |-> "nil",
           ctxDone |-> FALSE, watcher |-> "idle", waitTime |-> 0, route |-> FALSE,
           follower |-> "idle", pre |-> FALSE, baseRv |-> 0, seenRv |-> 0, seen |-> "None"]

\* The locals of a call that has returned: its goroutines go on, and nothing
\* reads the Test, the status or the error they write again.
Retire(c) ==
    [NoCall EXCEPT !.watcher = c.watcher, !.follower = c.follower, !.ctxDone = c.ctxDone,
                   !.waitTime = c.waitTime]

NoRet == [slot |-> 0, test |-> FALSE, err |-> "nil", via |-> "none", frame |-> NoCall]

NoClone == [rv |-> 0, status |-> ZeroStatus]

\* A Test left on the cluster by an earlier invocation that ended Passed.
OldTest == [name |-> <<"a">>, rv |-> 1, spec |-> <<"a">>,
            status |-> [phase |-> "Passed", results |-> <<>>], statusRv |-> 1]

\* The frame of a group run that has reached its loop over the files, under
\* the plain configuration.
AtFiles ==
    [pc |-> "files", dir |-> TRUE, cfg |-> PlainConfig, deferPost |-> TRUE,
     deferDelete |-> FALSE, ops |-> <<>>, outcome |-> "none"]

\* A cluster without Instances and without temporary namespace.
PlainEnv ==
    [insts |-> [local |-> "none", otherGlobal |-> FALSE], ns |-> "absent", operator |-> FALSE]

\* No skipStep call: a step without condition on a host without environment.
NoHook == [If |-> <<>>, goos |-> <<"l">>, environ |-> {}, skip |-> "none", clauses |-> <<>>]

\* The namespace part of a RunConfig and its BaseDir, as getRunConfig reads
\* and writes them; names are strings, empty or not.
NamespaceConfigs ==
    [Name : {<<>>, <<"n">>}, Temporary : BOOLEAN, AutoRemove : BOOLEAN,
     BaseDir : {<<>>, <<"b">>}]

\* config.NewWithDefaults(): nothing is named, no temporary namespace.
NewWithDefaults ==
    [Name |-> <<>>, Temporary |-> FALSE, AutoRemove |-> TRUE, BaseDir |-> <<>>]

\* No getRunConfig call: a local file, no default namespace.
NoLookup ==
    [source |-> "file", namespace |-> <<>>, loaded |-> [ok |-> TRUE, cfg |-> NewWithDefaults],
     state |-> "none", config |-> NewWithDefaults]

\* No choice of a timeout: neither flag nor configuration name one.
NoTiming == [flag |-> <<>>, config |-> <<>>, state |-> "none", wait |-> 0, logged |-> FALSE]

\* A directory that holds *.feature files only.
FilesOnly == [kinds |-> [i \in 1..Len(files) |-> "feature"], sub |-> NoSub]

InitFor(dev) ==
    /\ files \in FileLists
    /\ opts \in [Wait : BOOLEAN, Logs : BOOLEAN, Dev : {dev}, DumpFormat : DumpFormats]
    /\ cluster \in {{}, {OldTest}}
    /\ idx = 1
    /\ pc = "begin"
    /\ existed = FALSE
    /\ clone = NoClone
    /\ calls = <<>>
    /\ call = [i \in Slots |-> NoCall]
    /\ ret = NoRet
    /\ results = <<>>
    /\ crashed = FALSE
    /\ outer = AtFiles
    /\ env = PlainEnv
    /\ tree = FilesOnly
    /\ stack = <<>>
    /\ hook = NoHook
    /\ lookup = NoLookup
    /\ timing = NoTiming
    /\ loads = <<>>

Init == InitFor(FALSE)

\* ------------------------------------------------------------- helpers

Name == SanitizeName(files[idx])

Exists(n) == \E o \in cluster : o.name = n

Obj(n) == CHOOSE o \in cluster : o.name = n

Put(o) == {x \in cluster : x.name # o.name} \cup {o}

\* The kind of entry i of the directory being run.
Kind(i) == IF stack = <<>> THEN tree.kinds[i] ELSE tree.sub.kinds[i]

\* if f.IsDir() && runConfig.Config.Recursive.
Recurses(i) == IsDir(Kind(i)) /\ outer.cfg.Recursive

\* else if strings.HasSuffix(f.Name(), FileSuffix).
Submits(i) == ~Recurses(i) /\ HasSuffix(Kind(i))

\* The loop of the frame stands at an entry it passes to createAndRunTest.
Alive == ~crashed /\ outer.pc = "files" /\ idx <= Len(files) /\ Submits(idx)

\* loadData(rawName): reading a file may fail, reading a directory fails.
LoadAnswers == IF IsDir(Kind(idx)) THEN {FALSE} ELSE BOOLEAN

\* What a write carrying resourceVersion rv gets from the API server: the
\* server rejects a stale resourceVersion, and any call may fail otherwise.
WriteOutcomes(n, rv) ==
    IF Exists(n) /\ Obj(n).rv = rv THEN {"ok", "error"} ELSE {"conflict", "error"}

\* report.AppendTestResults: the errors of the Test's results join the suite.
AppendTestResults(suite, st) == [suite EXCEPT !.errors = @ \o st.results]

\* The suite runTestGroup stores for a call that returned a Test: the results
\* the Test reports (the suite is stored before the call's error is appended to
\* the local copy).
TestSuite(e) ==
    AppendTestResults([src |-> files[idx], errors |-> <<>>], call[idx].test.status)

\* handleTestError: a suite with one error line.
ErrorSuite(e) == [src |-> files[idx], errors |-> <<e>>]

\* Mutant: an error of createAndRunTest ends the loop over the files.
HandleReturn_Abort(t, e, via) ==
    /\ results' =
          IF t THEN Append(results, TestSuite(e))
          ELSE IF e # "nil" THEN Append(results, ErrorSuite(e))
          ELSE results
    /\ ret' = [slot |-> idx, test |-> t, err |-> e, via |-> via, frame |-> call[idx]]
    /\ call' = [call EXCEPT ![idx] = Retire(@)]
    /\ idx' = IF e # "nil" THEN Len(files) + 1 ELSE idx + 1
    /\ pc' = "begin"

\* Mutant: a call that returned neither Test nor error leaves an empty suite.
HandleReturn_Always(t, e, via) ==
    /\ results' =
          IF t THEN Append(results, TestSuite(e))
          ELSE IF e # "nil" THEN Append(results, ErrorSuite(e))
          ELSE Append(results, [src |-> files[idx], errors |-> <<>>])
    /\ ret' = [slot |-> idx, test |-> t, err |-> e, via |-> via, frame |-> call[idx]]
    /\ call' = [call EXCEPT ![idx] = Retire(@)]
    /\ idx' = idx + 1
    /\ pc' = "begin"

\* The loop body of runTestGroup around one createAndRunTest call, and the
\* step to the next file.
HandleReturn(t, e, via) ==
    /\ results' =
          IF t THEN Append(results, TestSuite(e))
          ELSE IF e # "nil" THEN Append(results, ErrorSuite(e))
          ELSE results
    /\ ret' = [slot |-> idx, test |-> t, err |-> e, via |-> via, frame |-> call[idx]]
    /\ call' = [call EXCEPT ![idx] = Retire(@)]
    /\ idx' = idx + 1
    /\ pc' = "begin"

\* ------------------------------------------------- createAndRunTest (main)

\* Mutant: every non-empty dump format is printed.
DumpSwitch_Accept(format) == IF format = "" THEN "continue" ELSE "dump"

\* switch o.DumpFormat: go on, print the Test and return, or reject.
DumpSwitch(format) ==
    CASE format = "" -> "continue"
      [] format \in {"yaml", "json"} -> "dump"
      [] OTHER -> "invalid"

\* The files of one list: up to max of them, each readable or not.
LoadsOf(kind, max) ==
    UNION {[1..n -> {[kind |-> kind, ok |-> ok] : ok \in BOOLEAN}] : n \in 0..max}

\* The files createAndRunTest can be asked to load after the source.
LoadLists ==
    {a \o b \o c \o d :
        a \in LoadsOf("configResource", MaxResources), b \in LoadsOf("resource", MaxResources),
        c \in LoadsOf("property", MaxResources), d \in LoadsOf("settings", 1)}

\* Mutant: the settings file is not looked at.
FirstFailure_NoSettings(ls) ==
    LET bad == {k \in 1..Len(ls) : ~ls[k].ok /\ ls[k].kind # "settings"}
    IN  IF bad = {} THEN 0 ELSE CHOOSE k \in bad : \A j \in bad : k <= j

\* The first file of the list loadData fails on, 0 when it reads them all.
FirstFailure(ls) ==
    LET bad == {k \in 1..Len(ls) : ~ls[k].ok}
    IN  IF bad = {} THEN 0 ELSE CHOOSE k \in bad : \A j \in bad : k <= j

\* The error createAndRunTest returns when a file of the given list cannot be
\* loaded.
LoadError(kind) ==
    CASE kind \in {"configResource", "resource"} -> "loadResource"
      [] kind = "property" -> "loadProperty"
      [] OTHER -> "loadSettings"

\* Name derivation, loading of the source, the resources, the property files
\* and the settings, the dump switch.
Begin ==
    /\ Alive /\ pc = "begin"
    /\ existed' = FALSE
    /\ clone' = NoClone
    /\ calls' = <<>>
    /\ \E loaded \in LoadAnswers :
         IF Name = <<>>
         THEN HandleReturn(FALSE, "name", "early")
         ELSE IF ~loaded
         THEN HandleReturn(FALSE, "load", "early")
         ELSE IF FirstFailure(loads) # 0
         THEN HandleReturn(FALSE, LoadError(loads[FirstFailure(loads)].kind), "early")
         ELSE IF DumpSwitch(opts.DumpFormat) = "dump"
         THEN HandleReturn(FALSE, "nil", "dump")
         ELSE IF DumpSwitch(opts.DumpFormat) = "invalid"
         THEN HandleReturn(FALSE, "format", "early")
         ELSE /\ pc' = "create"
              /\ ret' = NoRet
              /\ call' = [call EXCEPT ![idx].pre = Exists(Name)]
              /\ UNCHANGED <<idx, results>>
    /\ UNCHANGED <<outerVars, files, opts, cluster, crashed>>

\* Mutant: "already exists" counts as created, the update path is skipped.
CreateNext_Skip(answer) ==
    CASE answer = "ok" -> "spawn"
      [] answer = "exists" -> "spawn"
      [] OTHER -> "fail"

\* Where createAndRunTest goes after Create answered.
CreateNext(answer) ==
    CASE answer = "ok" -> "spawn"
      [] answer = "exists" -> "get"
      [] OTHER -> "fail"

\* c.Create: the server stores the object unless one of that name exists.
Create ==
    /\ Alive /\ pc = "create"
    /\ \E answer \in {IF Exists(Name) THEN "exists" ELSE "ok", "error"} :
         /\ calls' = Append(calls, [op |-> "Create", rv |-> 0, res |-> answer])
         /\ existed' = (answer = "exists")
         /\ cluster' =
              IF answer = "ok"
              THEN cluster \cup {[name |-> Name, rv |-> 1, spec |-> files[idx],
                                  status |-> ZeroStatus, statusRv |-> 1]}
              ELSE cluster
         /\ IF CreateNext(answer) = "fail"
            THEN HandleReturn(FALSE, "resource", "early")
            ELSE /\ pc' = CreateNext(answer)
                 /\ call' = [call EXCEPT
                      ![idx].test = IF answer = "ok" THEN [rv |-> 1, status |-> ZeroStatus] ELSE @,
                      ![idx].baseRv = IF answer = "ok" THEN 1 ELSE Obj(Name).statusRv]
                 /\ UNCHANGED <<idx, ret, results>>
    /\ UNCHANGED <<outerVars, files, opts, clone, crashed>>

GetNext(ok) == IF ok THEN "pushUpdating" ELSE "fail"

\* c.Get of the current object into the clone.
Get ==
    /\ Alive /\ pc = "get"
    /\ \E ok \in {Exists(Name), FALSE} :
         /\ calls' = Append(calls, [op |-> "Get", rv |-> 0,
                                    res |-> IF ok THEN "ok" ELSE "error"])
         /\ clone' = IF ok THEN [rv |-> Obj(Name).rv, status |-> Obj(Name).status]
                     ELSE clone
         /\ IF GetNext(ok) = "fail"
            THEN HandleReturn(FALSE, "resource", "early")
            ELSE /\ pc' = GetNext(ok)
                 /\ UNCHANGED <<idx, call, ret, results>>
    /\ UNCHANGED <<outerVars, files, opts, cluster, existed, crashed>>

\* Mutant: the error of the Updating push is dropped.
PushUpdatingNext_Ignore(ok) == "update"

\* Mutant: a rejected Updating push starts the update path over.
PushUpdatingNext_Retry(ok) == IF ok THEN "update" ELSE "get"

PushUpdatingNext(ok) == IF ok THEN "update" ELSE "fail"

\* The phase the client forces onto the fetched copy to hold the controller.
HoldPhase == "Updating"

\* clone.Status.Phase = Updating; c.Status().Update(clone).
PushUpdating ==
    /\ Alive /\ pc = "pushUpdating"
    /\ \E answer \in WriteOutcomes(Name, clone.rv) :
         /\ calls' = Append(calls, [op |-> "StatusUpdating", rv |-> clone.rv, res |-> answer])
         /\ IF answer = "ok"
            THEN LET o == Obj(Name)
                     st == [clone.status EXCEPT !.phase = HoldPhase]
                 IN /\ cluster' = Put([o EXCEPT !.rv = o.rv + 1, !.status = st,
                                                !.statusRv = o.rv + 1])
                    /\ clone' = [rv |-> o.rv + 1, status |-> st]
            ELSE UNCHANGED <<cluster, clone>>
         /\ IF PushUpdatingNext(answer = "ok") = "fail"
            THEN HandleReturn(FALSE, "resource", "early")
            ELSE /\ pc' = PushUpdatingNext(answer = "ok")
                 /\ UNCHANGED <<idx, call, ret, results>>
    /\ UNCHANGED <<outerVars, files, opts, existed, crashed>>

UpdateNext(ok) == IF ok THEN "reset" ELSE "fail"

\* The resourceVersion the spec update carries.
UpdateVersion == clone.rv

\* test.ResourceVersion = clone.ResourceVersion; c.Update(&test).
Update ==
    /\ Alive /\ pc = "update"
    /\ \E answer \in WriteOutcomes(Name, UpdateVersion) :
         /\ calls' = Append(calls, [op |-> "Update", rv |-> UpdateVersion, res |-> answer])
         /\ cluster' =
              IF answer = "ok"
              THEN Put([Obj(Name) EXCEPT !.rv = @ + 1, !.spec = files[idx]])
              ELSE cluster
         /\ IF UpdateNext(answer = "ok") = "fail"
            THEN HandleReturn(FALSE, "resource", "early")
            ELSE /\ pc' = UpdateNext(answer = "ok")
                 /\ call' = [call EXCEPT ![idx].test =
                               [rv |-> Obj(Name).rv + 1, status |-> Obj(Name).status]]
                 /\ UNCHANGED <<idx, ret, results>>
    /\ UNCHANGED <<outerVars, files, opts, existed, clone, crashed>>

ResetNext(ok) == IF ok THEN "spawn" ELSE "fail"

\* Mutant: the last push carries the status of the fetched copy.
ResetStatus_Fetched == clone.status

\* The status the client pushes last.
ResetStatus == ZeroStatus

\* test.Status = TestStatus{}; c.Status().Update(&test).
Reset ==
    /\ Alive /\ pc = "reset"
    /\ \E answer \in WriteOutcomes(Name, call[idx].test.rv) :
         /\ calls' = Append(calls, [op |-> "StatusReset", rv |-> call[idx].test.rv,
                                    res |-> answer])
         /\ cluster' =
              IF answer = "ok"
              THEN Put([Obj(Name) EXCEPT !.rv = @ + 1, !.status = ResetStatus,
                                         !.statusRv = Obj(Name).rv + 1])
              ELSE cluster
         /\ IF ResetNext(answer = "ok") = "fail"
            THEN HandleReturn(FALSE, "resource", "early")
            ELSE /\ pc' = ResetNext(answer = "ok")
                 /\ call' = [call EXCEPT
                      ![idx].test = [rv |-> Obj(Name).rv + 1, status |-> ResetStatus],
                      ![idx].baseRv = IF answer = "ok" THEN Obj(Name).rv + 1 ELSE @]
                 /\ UNCHANGED <<idx, ret, results>>
    /\ UNCHANGED <<outerVars, files, opts, existed, clone, crashed>>

\* The wait point lets the call go on: at once without Wait, else on <-ctx.Done().
\* Mutant: the wait point does not block.
WaitReady_NoBlock == TRUE

WaitReady == ~opts.Wait \/ call[idx].ctxDone

\* Mutant: the error WaitCondition left in err is returned when there is one.
ReturnedError_WaitErr ==
    IF call[idx].err # "nil" THEN call[idx].err ELSE AsError(call[idx].status)

\* The error createAndRunTest returns after the wait point.
ReturnedError == AsError(call[idx].status)

\* Where the main goroutine goes after starting the watcher.
SpawnNext == IF opts.Logs /\ opts.Wait THEN "logs" ELSE "wait"

\* ctx, cancel := context.WithCancel; status = New; go <watcher>.
Spawn ==
    /\ Alive /\ pc = "spawn"
    /\ call' = [call EXCEPT ![idx].status = "New",
                            ![idx].watcher = IF opts.Dev THEN "devGet" ELSE "poll"]
    /\ pc' = SpawnNext
    /\ UNCHANGED <<outerVars, files, opts, cluster, idx, existed, clone, calls, ret, results, crashed>>

\* k8slog.Print: starts the log follower on the shared context, or fails.
StartLogs ==
    /\ Alive /\ pc = "logs"
    /\ \E ok \in BOOLEAN :
         IF ok
         THEN /\ call' = [call EXCEPT ![idx].follower = "streaming"]
              /\ pc' = "wait"
              /\ UNCHANGED <<idx, ret, results>>
         ELSE HandleReturn(FALSE, "log", "early")
    /\ UNCHANGED <<outerVars, files, opts, cluster, existed, clone, calls, crashed>>

\* The wait point and the return of the Test with status.AsError.
WaitPoint ==
    /\ Alive /\ pc = "wait"
    /\ WaitReady
    /\ HandleReturn(TRUE, ReturnedError, IF opts.Wait THEN "wait" ELSE "nowait")
    /\ UNCHANGED <<outerVars, files, opts, cluster, existed, clone, calls, crashed>>

\* ------------------------------------------------------ phase watcher

\* What a goroutine of call i leaves behind: after the call returned, only
\* where the goroutine stands.
Ended(i, c) == IF i < idx THEN Retire(c) ELSE c

\* One poll of kubernetes.WaitCondition: Get into the Test, then the predicate;
\* a failed Get ends the wait with its error.
WatchPoll(i) ==
    /\ Alive /\ i <= Len(files) /\ call[i].watcher = "poll"
    /\ LET n == SanitizeName(files[i])
       IN \E ok \in {Exists(n), FALSE} :
            call' = [call EXCEPT ![i] = Ended(i,
                IF ok
                THEN [@ EXCEPT !.test.status = Obj(n).status,
                               !.status = Observe(@, Obj(n).status.phase),
                               !.seenRv = Obj(n).statusRv,
                               !.seen = IF Obj(n).status.phase = "None"
                                        THEN @ ELSE Obj(n).status.phase,
                               !.err = "nil",
                               !.watcher = IF IsTerminal(Obj(n).status.phase)
                                           THEN "cancel" ELSE "poll"]
                ELSE [@ EXCEPT !.err = "get", !.watcher = "cancel"])]
    /\ UNCHANGED <<outerVars, files, opts, cluster, idx, pc, existed, clone, calls, ret, results, crashed>>

\* The wait duration elapses before the predicate held.
WatchTimeout(i) ==
    /\ Alive /\ i <= Len(files) /\ call[i].watcher = "poll"
    /\ call' = [call EXCEPT ![i] = Ended(i, [@ EXCEPT !.err = "timeout", !.watcher = "cancel"])]
    /\ UNCHANGED <<outerVars, files, opts, cluster, idx, pc, existed, clone, calls, ret, results, crashed>>

\* cancel() as the watcher's last statement.
WatchCancel(i) ==
    /\ Alive /\ i <= Len(files) /\ call[i].watcher = "cancel"
    /\ call' = [call EXCEPT ![i] = Ended(i, [@ EXCEPT !.ctxDone = TRUE, !.watcher = "done"])]
    /\ UNCHANGED <<outerVars, files, opts, cluster, idx, pc, existed, clone, calls, ret, results, crashed>>

\* --------------------------------------------------- dev route watcher

\* The init statement of the route loop: the one Get of the Route. An error
\* enters the loop; a Route skips it, and the final print indexes Ingress[0].
DevGet(i) ==
    /\ Alive /\ i <= Len(files) /\ call[i].watcher = "devGet"
    /\ \E answer \in {"error", "noIngress", "ingress"} :
         /\ call' = [call EXCEPT ![i] = Ended(i,
              [@ EXCEPT !.watcher = CASE answer = "error" -> "devLoop"
                                      [] answer = "ingress" -> "done"
                                      [] OTHER -> "panic",
                        !.route = (answer = "ingress")])]
         /\ crashed' = (answer = "noIngress")
    /\ UNCHANGED <<outerVars, files, opts, cluster, idx, pc, existed, clone, calls, ret, results>>

\* The loop's condition once entered: err is never assigned again.
DevLoopAgain == TRUE

\* One iteration of the route loop: cancel past the ceiling, the ingress check
\* on the Route that was never fetched, the sleep, waitTime++.
DevIter(i) ==
    /\ Alive /\ i <= Len(files) /\ call[i].watcher = "devLoop"
    /\ call[i].waitTime <= RouteCeiling + MaxOverrun
    /\ call' = [call EXCEPT
         ![i].ctxDone = @ \/ call[i].waitTime > RouteCeiling,
         ![i].waitTime = @ + 1,
         ![i].watcher = IF DevLoopAgain THEN "devLoop" ELSE "done"]
    /\ UNCHANGED <<outerVars, files, opts, cluster, idx, pc, existed, clone, calls, ret, results, crashed>>

\* ------------------------------------------------------- log follower

\* The follower sees the cancelled context, flushes and stops.
FollowerStop(i) ==
    /\ Alive /\ i <= Len(files) /\ call[i].follower = "streaming" /\ call[i].ctxDone
    /\ call' = [call EXCEPT ![i].follower = "flushed"]
    /\ UNCHANGED <<outerVars, files, opts, cluster, idx, pc, existed, clone, calls, ret, results, crashed>>

\* --------------------------------------------------------- controller

\* The controller writes the next phase of a Test it is not held from.
CtrlWrite ==
    /\ Alive
    /\ \E o \in cluster, p \in ControllerPhases :
         /\ o.status.phase # "Updating"
         /\ Rank(p) > Rank(o.status.phase)
         /\ cluster' = Put([o EXCEPT !.rv = o.rv + 1,
                                     !.status = [phase |-> p, results |-> ResultsOf(p)],
                                     !.statusRv = o.rv + 1])
    /\ UNCHANGED <<outerVars, files, opts, idx, pc, existed, clone, calls, call, ret, results, crashed>>

\* ------------------------------------------- runTest / runTestGroup

\* The source of the frame: the directory the run was invoked on, a
\* subdirectory of it, or the one file.
Source ==
    IF ~outer.dir THEN files[1] ELSE IF stack = <<>> THEN <<"/">> ELSE <<"/", "/">>

\* An entry of the record of calls.
Op(op, arg, ok) == [op |-> op, arg |-> arg, ok |-> ok]

\* Mutant: the Post steps are not deferred.
ReturnPc_NoPost(o) == IF o.deferDelete THEN "delete" ELSE "exit"

\* Mutant: the deferred delete goes before the Post steps.
ReturnPc_DeleteFirst(o) ==
    IF o.deferDelete THEN "delete" ELSE IF o.deferPost THEN "post" ELSE "exit"

\* Where a return of runTest / runTestGroup goes: the deferred calls run last
\* registered first, then run() looks at the results.
ReturnPc(o) ==
    IF o.deferPost THEN "post" ELSE IF o.deferDelete THEN "delete" ELSE "exit"

\* A step of runTest / runTestGroup: the frame, the results and the cluster
\* it leaves; createAndRunTest's state is not touched.
Step(o, r, e) ==
    /\ outer' = o
    /\ results' = r
    /\ env' = e
    /\ UNCHANGED <<tree, stack, hook, lookup, timing, loads, files, opts, cluster, idx, pc,
                   existed, clone, calls, call, ret, crashed>>

\* handleTestError followed by return.
Fail(o, e, ev) ==
    Step([o EXCEPT !.pc = ReturnPc(o)],
         Append(results, [src |-> Source, errors |-> <<e>>]), ev)

\* panic(err): the process ends, deferred calls of the frame are not modelled
\* further.
Panic ==
    /\ crashed' = TRUE
    /\ UNCHANGED <<outerVars, files, opts, cluster, idx, pc, existed, clone, calls, call, ret,
                   results>>

\* o.GetCmdClient().
GetCmdClient ==
    /\ ~crashed /\ outer.pc = "client"
    /\ \E ok \in BOOLEAN :
         IF ok THEN Step([outer EXCEPT !.pc = "config"], results, env)
         ELSE Fail(outer, "client", env)

\* Mutant: the namespace is provisioned whatever the configuration says.
AfterConfig_Always == "namespace"

\* if runConfig.Config.Namespace.Temporary.
AfterConfig == IF outer.cfg.Temporary THEN "namespace" ELSE "upload"

\* o.getRunConfig(source) and the test of Namespace.Temporary.
GetRunConfig ==
    /\ ~crashed /\ outer.pc = "config"
    /\ \E ok \in BOOLEAN :
         IF ok THEN Step([outer EXCEPT !.pc = AfterConfig], results, env)
         ELSE Fail(outer, "config", env)

\* Mutant: the delete is deferred whether or not the run waits.
DeferDelete_NoWait(o) == o.cfg.AutoRemove

\* if runConfig.Config.Namespace.AutoRemove && o.Wait.
DeferDelete(o) == o.cfg.AutoRemove /\ opts.Wait

\* What the caller does with a namespace and an error from
\* createTempNamespace: runTest registers the delete before it looks at the
\* error, runTestGroup returns on the error before registering it.
NamespaceReturn(o, e, ev) ==
    LET del == DeferDelete(o)
    IN  IF e = "nil"
        THEN Step([o EXCEPT !.pc = "upload", !.deferDelete = del], results, ev)
        ELSE Fail([o EXCEPT !.deferDelete = del /\ ~o.dir], e, ev)

\* Mutant: createTempNamespace goes on after a failed create.
AfterCreate_Ignore(ok) == "probe"

\* createTempNamespace after initializeTempNamespace: if err != nil return.
AfterCreate(ok) == IF ok THEN "probe" ELSE "return"

\* initializeTempNamespace, and createTempNamespace's return on its error.
InitializeTempNamespace ==
    /\ ~crashed /\ outer.pc = "namespace"
    /\ \E answer \in {"panic", "error", "ok"} :
         CASE answer = "panic" -> Panic
           [] answer = "error" ->
                LET o == [outer EXCEPT !.ops = Append(@, Op("NsCreate", 0, FALSE))]
                IN  IF AfterCreate(FALSE) = "return" THEN Fail(o, "namespace", env)
                    ELSE Step([o EXCEPT !.pc = AfterCreate(FALSE)], results, env)
           [] OTHER ->
                Step([outer EXCEPT !.pc = AfterCreate(TRUE),
                                   !.ops = Append(@, Op("NsCreate", 0, TRUE))],
                     results, [env EXCEPT !.ns = "present"])

\* o.findInstance(c, o.Namespace) and the branches on its answer.
FindInstance ==
    /\ ~crashed /\ outer.pc = "probe"
    /\ \E answer \in {env.insts.local, "error"} :
         LET o == [outer EXCEPT !.ops = Append(@, Op("InstanceGet", 0, answer \in {"plain", "global"}))]
         IN  CASE answer = "none" -> Step([o EXCEPT !.pc = "list"], results, env)
               [] answer = "error" -> NamespaceReturn(o, "instance", env)
               [] answer = "global" -> NamespaceReturn(o, "nil", env)
               [] OTHER -> Step([o EXCEPT !.pc = "setup"], results, env)

\* o.listInstances(c) and the search for a global Instance.
ListInstances ==
    /\ ~crashed /\ outer.pc = "list"
    /\ \E ok \in BOOLEAN :
         LET o == [outer EXCEPT !.ops = Append(@, Op("InstanceList", 0, ok))]
         IN  IF ~ok THEN NamespaceReturn(o, "list", env)
             ELSE IF env.insts.otherGlobal THEN NamespaceReturn(o, "nil", env)
             ELSE Step([o EXCEPT !.pc = "setup"], results, env)

\* setupCluster(o.Context, clientProvider, nil).
SetupCluster ==
    /\ ~crashed /\ outer.pc = "setup"
    /\ \E ok \in BOOLEAN :
         LET o == [outer EXCEPT !.ops = Append(@, Op("SetupCluster", 0, ok))]
         IN  IF ok THEN Step([o EXCEPT !.pc = "operator"], results, env)
             ELSE NamespaceReturn(o, "cluster", env)

\* The calls of setupOperator: no install when the flavor probe fails; the
\* install; the roles up to the first that fails.
OperatorOps(probe, installed, failRole) ==
    IF ~probe THEN <<>>
    ELSE <<Op("Install", 0, installed)>> \o
         [i \in 1..(IF failRole = 0 THEN outer.cfg.Roles ELSE failRole) |->
             Op("Role", i, i # failRole)]

\* The error setupOperator returns: err of the install is overwritten by each
\* applyOperatorRole.
OperatorError(probe, installed, failRole) ==
    IF ~probe THEN "flavor"
    ELSE IF failRole # 0 THEN "role"
    ELSE IF outer.cfg.Roles = 0 /\ ~installed THEN "install"
    ELSE "nil"

\* o.setupOperator(runConfig, c) and createTempNamespace's return.
SetupOperator ==
    /\ ~crashed /\ outer.pc = "operator"
    /\ \E probe \in BOOLEAN, installed \in BOOLEAN, failRole \in 0..outer.cfg.Roles :
         NamespaceReturn([outer EXCEPT !.ops = @ \o OperatorOps(probe, installed, failRole)],
                         OperatorError(probe, installed, failRole),
                         [env EXCEPT !.operator = probe /\ installed])

\* o.uploadArtifacts(runConfig).
UploadArtifacts ==
    /\ ~crashed /\ outer.pc = "upload"
    /\ \E ok \in BOOLEAN :
         IF ok THEN Step([outer EXCEPT !.pc = IF outer.dir THEN "readdir" ELSE "pre"], results, env)
         ELSE Fail(outer, "upload", env)

\* ioutil.ReadDir(source) of runTestGroup.
ReadDir ==
    /\ ~crashed /\ outer.pc = "readdir"
    /\ \E ok \in BOOLEAN :
         IF ok THEN Step([outer EXCEPT !.pc = "pre"], results, env)
         ELSE Fail(outer, "readdir", env)

\* Where runSteps can fail: nowhere (0), or at a step that is not skipped.
FailPoints(steps) == {0} \cup {i \in 1..Len(steps) : steps[i] = "run"}

\* Mutant: runSteps goes on after a failed step.
StepOps_Continue(kind, steps, k) ==
    LET ix == [i \in 1..Len(steps) |-> i]
        ran == SelectSeq(ix, LAMBDA i : steps[i] = "run")
    IN  [j \in 1..Len(ran) |-> Op(kind, ran[j], ran[j] # k)]

\* The steps runSteps executes when it fails at step k: those not skipped,
\* up to and including k.
StepOps(kind, steps, k) ==
    LET ix == [i \in 1..Len(steps) |-> i]
        ran == SelectSeq(ix, LAMBDA i : steps[i] = "run" /\ (k = 0 \/ i <= k))
    IN  [j \in 1..Len(ran) |-> Op(kind, ran[j], ran[j] # k)]

\* defer runSteps(runConfig.Post, ...); runSteps(runConfig.Pre, ...).
PreSteps ==
    /\ ~crashed /\ outer.pc = "pre"
    /\ \E k \in FailPoints(outer.cfg.Pre) :
         LET o == [outer EXCEPT !.deferPost = TRUE,
                                !.ops = Append(@, Op("RunPre", 0, k = 0))
                                          \o StepOps("Pre", outer.cfg.Pre, k)]
         IN  IF k = 0 THEN Step([o EXCEPT !.pc = "files"], results, env)
             ELSE Fail(o, "pre", env)

\* The phases createAndRunTest finds in its Test when it returns, as far as
\* the frame around it tells them apart: not finished, passed, failed.
ReadPhases == {"Running", "Passed", "Failed"}

\* The Test on the cluster after a submission whose status reads phase p.
Submitted(p) ==
    [name |-> Name, rv |-> 1, spec |-> files[idx],
     status |-> [phase |-> p, results |-> ResultsOf(p)], statusRv |-> 1]

\* createAndRunTest from Create to the wait point, taken as one step for the
\* frame around it: the create-or-update either fails (a Test that was there
\* may be left in phase Updating) or leaves the Test on the cluster; the log
\* follower may fail to start; otherwise the main goroutine stands at the wait
\* point, with the status the watcher has read when it is let through.
Reconcile ==
    /\ Alive /\ pc = "create"
    /\ \E answer \in {"error", "held", "log", "ok"}, p \in ReadPhases :
         /\ answer = "held" => Exists(Name)
         /\ answer = "log" => opts.Logs /\ opts.Wait
         /\ answer \in {"error", "held"} => p = "Running"
         /\ outer' = [outer EXCEPT !.ops = Append(@, Op("Submit", idx, answer \in {"log", "ok"}))]
         /\ cluster' =
              CASE answer = "error" -> cluster
                [] answer = "held" -> Put([Obj(Name) EXCEPT !.status.phase = HoldPhase])
                [] OTHER -> Put(Submitted(p))
         /\ existed' = Exists(Name)
         /\ IF answer = "ok"
            THEN /\ pc' = "wait"
                 /\ call' = [call EXCEPT ![idx] =
                      [@ EXCEPT !.test = [rv |-> 1, status |-> Submitted(p).status],
                                !.status = Observe("New", p),
                                !.ctxDone = opts.Wait,
                                !.watcher = IF opts.Wait THEN "done" ELSE "poll"]]
                 /\ UNCHANGED <<idx, ret, results>>
            ELSE HandleReturn(FALSE, IF answer = "log" THEN "log" ELSE "resource", "early")
    /\ UNCHANGED <<env, tree, stack, hook, lookup, timing, loads, files, opts, clone, calls,
                   crashed>>

\* Mutant: the loop ends after its first file.
LoopDone_AfterFirst == idx > 1

\* for _, f := range files: no file is left.
LoopDone == idx > Len(files)

\* The end of the loop over the files (of the one call in runTest): return.
LoopEnd ==
    /\ ~crashed /\ outer.pc = "files" /\ LoopDone
    /\ Step([outer EXCEPT !.pc = ReturnPc(outer)], results, env)

\* The loop of the frame stands at entry idx, about to look at it.
AtEntry == ~crashed /\ outer.pc = "files" /\ pc = "begin" /\ idx <= Len(files)

\* An entry that is neither recursed into nor named *.feature: next entry.
SkipEntry ==
    /\ AtEntry /\ ~Recurses(idx) /\ ~Submits(idx)
    /\ idx' = idx + 1
    /\ UNCHANGED <<outerVars, files, opts, cluster, pc, existed, clone, calls, call, ret, results,
                   crashed>>

\* The frame of a runTestGroup call at its first line.
NewFrame(cfg, ops) ==
    [pc |-> "client", dir |-> TRUE, cfg |-> cfg, deferPost |-> FALSE, deferDelete |-> FALSE,
     ops |-> ops, outcome |-> "none"]

\* o.runTestGroup(cmd, name, results) on a subdirectory: the frame waits, the
\* call starts on the subdirectory with the same results. The goroutines of
\* the calls made so far are not followed further.
Descend ==
    /\ AtEntry /\ Recurses(idx)
    /\ stack' = <<[outer |-> outer, files |-> files, idx |-> idx, suites |-> Len(results)]>>
                    \o stack
    /\ outer' = NewFrame(tree.sub.cfg, Append(outer.ops, Op("Enter", idx, TRUE)))
    /\ files' = tree.sub.files
    /\ idx' = 1
    /\ call' = [i \in Slots |-> NoCall]
    /\ ret' = NoRet
    /\ UNCHANGED <<env, tree, hook, lookup, timing, loads, opts, cluster, pc, existed, clone,
                   calls, results, crashed>>

\* The recursive call returns (its deferred calls have run): the waiting
\* frame goes on with its next entry. The record tells how many suites the
\* call appended.
Ascend ==
    /\ ~crashed /\ outer.pc = "exit" /\ stack # <<>>
    /\ outer' = [Head(stack).outer EXCEPT
                    !.ops = Append(outer.ops,
                                   Op("Leave", Len(results) - Head(stack).suites, TRUE))]
    /\ files' = Head(stack).files
    /\ idx' = Head(stack).idx + 1
    /\ stack' = Tail(stack)
    /\ call' = [i \in Slots |-> NoCall]
    /\ ret' = NoRet
    /\ UNCHANGED <<env, tree, hook, lookup, timing, loads, opts, cluster, pc, existed, clone,
                   calls, results, crashed>>

\* Mutant: a failed Post step is recorded like a failed Pre step.
PostResults_Recorded(k) ==
    IF k = 0 THEN results ELSE Append(results, [src |-> Source, errors |-> <<"post">>])

\* The results after the deferred runSteps failed at step k: the value the
\* deferred call returns is dropped.
PostResults(k) == results

\* The deferred runSteps(runConfig.Post, ...).
PostSteps ==
    /\ ~crashed /\ outer.pc = "post"
    /\ \E k \in FailPoints(outer.cfg.Post) :
         Step([outer EXCEPT !.pc = IF outer.deferDelete THEN "delete" ELSE "exit",
                            !.ops = Append(@, Op("RunPost", 0, k = 0))
                                      \o StepOps("Post", outer.cfg.Post, k)],
              PostResults(k), env)

\* Mutant: a failed delete is recorded as an error of the source.
DeleteResults_Recorded(answer) ==
    IF answer = "ok" THEN results ELSE Append(results, [src |-> Source, errors |-> <<"delete">>])

\* The results after c.Delete answered: a failure is printed as a warning.
DeleteResults(answer) == results

\* The deferred deleteTempNamespace.
DeleteTempNamespace ==
    /\ ~crashed /\ outer.pc = "delete"
    /\ \E answer \in {"panic", "error", "ok"} :
         IF answer = "panic" THEN Panic
         ELSE Step([outer EXCEPT !.pc = "exit",
                                 !.ops = Append(@, Op("NsDelete", 0, answer = "ok"))],
                   DeleteResults(answer),
                   [env EXCEPT !.ns = IF answer = "ok" THEN "deleted" ELSE @])

\* hasErrors(&results): some suite carries an error.
HasErrors(r) == \E k \in 1..Len(r) : r[k].errors # <<>>

\* run after runTest / runTestGroup returned.
Exit ==
    /\ ~crashed /\ outer.pc = "exit" /\ stack = <<>>
    /\ Step([outer EXCEPT !.pc = "done",
                          !.outcome = IF HasErrors(results) THEN "error" ELSE "nil"],
            results, env)

\* ------------------------------------------------------------ skipStep

\* Strings are sequences of atoms: the words "os" and "env:", the separator
\* " && " (the atom "&&"), the sign "=", and letters.
OSNames == {<<"l">>, <<"w">>}

EnvNames == {<<"F">>, <<"G">>}

\* Values of os clauses, env clauses and environment variables: empty, the
\* name of an operating system, a value that holds a "=".
EnvValues == {<<>>, <<"l">>, <<"w">>, <<"l", "=", "w">>}

\* The clauses of an If condition: os=V, os, env:N=V, env:N.
Clauses ==
    {[kind |-> "os=", name |-> <<>>, value |-> v] : v \in EnvValues}
    \cup {[kind |-> "os", name |-> <<>>, value |-> <<>>]}
    \cup {[kind |-> "env=", name |-> n, value |-> v] : n \in EnvNames, v \in EnvValues}
    \cup {[kind |-> "env", name |-> n, value |-> <<>>] : n \in EnvNames}

ClauseLists == UNION {[1..n -> Clauses] : n \in 0..MaxClauses}

\* The environments: at most one value per name.
Environs ==
    {e \in SUBSET (EnvNames \X EnvValues) : \A p, q \in e : p[1] = q[1] => p = q}

\* A clause as it is written in the configuration.
Text(c) ==
    CASE c.kind = "os=" -> <<"os", "=">> \o c.value
      [] c.kind = "os" -> <<"os">>
      [] c.kind = "env=" -> <<"env:">> \o c.name \o <<"=">> \o c.value
      [] OTHER -> <<"env:">> \o c.name

RECURSIVE Join(_)
\* The If string of a list of clauses: joined by " && ".
Join(cs) ==
    IF cs = <<>> THEN <<>>
    ELSE IF Len(cs) = 1 THEN Text(cs[1])
    ELSE Text(Head(cs)) \o <<"&&">> \o Join(Tail(cs))

\* strings.Contains(s, sep).
Contains(s, sep) == \E k \in 1..Len(s) : s[k] = sep

RECURSIVE Split(_, _)
\* strings.Split(s, sep): the pieces between all occurrences of sep.
Split(s, sep) ==
    IF ~Contains(s, sep) THEN <<s>>
    ELSE LET k == CHOOSE k \in 1..Len(s) : s[k] = sep /\ \A j \in 1..(k - 1) : s[j] # sep
         IN  <<SubSeq(s, 1, k - 1)>> \o Split(SubSeq(s, k + 1, Len(s)), sep)

\* strings.HasPrefix(s, "env:").
HasPrefix(s) == s # <<>> /\ Head(s) = "env:"

\* os.LookupEnv(name): ok.
IsSet(environ, name) == \E p \in environ : p[1] = name

\* os.LookupEnv(name): value.
LookupEnv(environ, name) == (CHOOSE p \in environ : p[1] = name)[2]

\* Mutant: a passing name check ends the evaluation of the condition.
AfterPresent_Return(rest) == <<>>

\* continue after a name check without expected value: the conditions left.
AfterPresent(rest) == rest

RECURSIVE SkipFrom(_, _)
\* The loop of skipStep over the conditions: "skip" at the first condition
\* that sets skipStep, "run" after the last; keyValue[1] of "os" without "="
\* is out of range.
SkipFrom(conditions, h) ==
    IF conditions = <<>> THEN "run"
    ELSE LET condition == Head(conditions)
             keyValue == IF Contains(condition, "=") THEN Split(condition, "=")
                         ELSE <<condition>>
             rest == Tail(conditions)
         IN  IF keyValue[1] = <<"os">>
             THEN IF Len(keyValue) < 2 THEN "panic"
                  ELSE IF keyValue[2] # h.goos THEN "skip"
                  ELSE SkipFrom(rest, h)
             ELSE IF HasPrefix(keyValue[1])
             THEN LET name == Tail(keyValue[1])
                  IN  IF ~IsSet(h.environ, name) THEN "skip"
                      ELSE IF Len(keyValue) = 1 THEN SkipFrom(AfterPresent(rest), h)
                      ELSE IF keyValue[2] # LookupEnv(h.environ, name) THEN "skip"
                      ELSE SkipFrom(rest, h)
             ELSE SkipFrom(rest, h)

\* skipStep(step) on the host h.
skipStep(h) ==
    IF h.If = <<>> THEN "run" ELSE SkipFrom(Split(h.If, "&&"), h)

\* runSteps asks skipStep about a step.
CallSkipStep ==
    /\ hook.skip = "none"
    /\ hook' = [hook EXCEPT !.skip = skipStep(hook)]
    /\ UNCHANGED <<outer, env, tree, stack, lookup, timing, loads, files, opts, cluster, idx, pc,
                   existed, clone, calls, call, ret, results, crashed>>

\* -------------------------------------------------------- getRunConfig

\* getBaseDir(source): the directory that holds the source.
GetBaseDir(source) == <<"s">>

\* o.getRunConfig(source): the defaults for a remote file; else the
\* configuration file next to the source, with BaseDir and the name of a
\* namespace that is not temporary filled in when empty.
getRunConfig(c) ==
    IF c.source = "remote" THEN [c EXCEPT !.state = "config", !.config = NewWithDefaults]
    ELSE IF ~c.loaded.ok THEN [c EXCEPT !.state = "error"]
    ELSE LET runConfig == c.loaded.cfg
             based == IF runConfig.BaseDir = <<>>
                      THEN [runConfig EXCEPT !.BaseDir = GetBaseDir(c.source)]
                      ELSE runConfig
             named == IF based.Name = <<>> /\ ~based.Temporary
                      THEN [based EXCEPT !.Name = c.namespace]
                      ELSE based
         IN  [c EXCEPT !.state = "config", !.config = named]

\* runTest / runTestGroup ask for the configuration of the source.
CallGetRunConfig ==
    /\ lookup.state = "none"
    /\ lookup' = getRunConfig(lookup)
    /\ UNCHANGED <<outer, env, tree, stack, hook, timing, loads, files, opts, cluster, idx, pc,
                   existed, clone, calls, call, ret, results, crashed>>

\* ------------------------------------------- the watcher's wait timeout

\* Timeout strings are sequences of atoms: decimal digits and the letters of
\* the units.
Digits == {"1", "5"}

DurationAtoms == Digits \cup {"m", "s"}

DurationStrings == UNION {[1..n -> DurationAtoms] : n \in 0..MaxDuration}

DigitValue(c) == IF c = "1" THEN 1 ELSE 5

\* The length of the longest prefix of s made of digits (digits = TRUE) or of
\* other atoms (digits = FALSE).
Run(s, digits) ==
    LET stops == {k \in 1..Len(s) : (s[k] \in Digits) # digits}
    IN  IF stops = {} THEN Len(s) ELSE (CHOOSE k \in stops : \A j \in stops : k <= j) - 1

RECURSIVE Decimal(_)
\* The number a run of digits writes.
Decimal(ds) ==
    IF ds = <<>> THEN 0 ELSE 10 * Decimal(SubSeq(ds, 1, Len(ds) - 1)) + DigitValue(ds[Len(ds)])

\* The unit map of time.ParseDuration, in milliseconds; 0 for a unit it does
\* not know.
UnitMillis(u) ==
    CASE u = <<"m", "s">> -> 1
      [] u = <<"s">> -> 1000
      [] u = <<"m">> -> 60000
      [] OTHER -> 0

NoDuration == [ok |-> FALSE, d |-> 0]

RECURSIVE ParseGroups(_)
\* The loop of time.ParseDuration over a string that is not empty: a number,
\* then a unit (every atom up to the next digit), again until the end.
ParseGroups(s) ==
    LET n == Run(s, TRUE)
        rest == SubSeq(s, n + 1, Len(s))
        u == Run(rest, FALSE)
        unit == SubSeq(rest, 1, u)
        left == SubSeq(rest, u + 1, Len(rest))
        d == Decimal(SubSeq(s, 1, n)) * UnitMillis(unit)
    IN  IF n = 0 \/ u = 0 \/ UnitMillis(unit) = 0 THEN NoDuration
        ELSE IF left = <<>> THEN [ok |-> TRUE, d |-> d]
        ELSE LET more == ParseGroups(left)
             IN  IF more.ok THEN [ok |-> TRUE, d |-> d + more.d] ELSE NoDuration

\* time.ParseDuration(s): the duration in milliseconds, or an error.
ParseDuration(s) == IF s = <<>> THEN NoDuration ELSE ParseGroups(s)

\* config.DefaultTimeout.
DefaultTimeout == <<"5", "5", "m">>

\* Mutant: the timeout of the configuration goes before the flag.
Chosen_ConfigFirst(flag, config) ==
    IF config # <<>> THEN config ELSE IF flag # <<>> THEN flag ELSE DefaultTimeout

\* The string the watcher parses: o.Timeout, else runConfig.Config.Timeout,
\* else the default.
Chosen(flag, config) ==
    IF flag # <<>> THEN flag ELSE IF config # <<>> THEN config ELSE DefaultTimeout

\* waitTimeout as the watcher hands it to WaitCondition: the duration of the
\* chosen string, or of the default when the string does not parse.
WaitTimeout(t) ==
    LET parsed == ParseDuration(Chosen(t.flag, t.config))
    IN  IF parsed.ok THEN parsed.d ELSE ParseDuration(DefaultTimeout).d

\* The first statements of the watcher goroutine, up to the call of
\* WaitCondition.
ChooseTimeout ==
    /\ timing.state = "none"
    /\ timing' = [timing EXCEPT !.state = "waiting", !.wait = WaitTimeout(timing),
                                !.logged = ~ParseDuration(Chosen(timing.flag, timing.config)).ok]
    /\ UNCHANGED <<outer, env, tree, stack, hook, lookup, loads, files, opts, cluster, idx, pc,
                   existed, clone, calls, call, ret, results, crashed>>

\* ------------------------------------------------------ specifications

MainNext ==
    \/ Begin
    \/ Create
    \/ Get
    \/ PushUpdating
    \/ Update
    \/ Reset
    \/ Spawn
    \/ StartLogs
    \/ WaitPoint

EnvNext ==
    \/ CtrlWrite
    \/ \E i \in Slots : FollowerStop(i)

Next ==
    \/ MainNext
    \/ EnvNext
    \/ \E i \in Slots : WatchPoll(i)
    \/ \E i \in Slots : WatchTimeout(i)
    \/ \E i \in Slots : WatchCancel(i)

\* Runs without --dev.
Spec == Init /\ [][Next]_vars

\* The goroutines are scheduled, the wait duration elapses in real time, and
\* the main goroutine runs once the context is done.
Fairness ==
    /\ \A i \in Slots : WF_vars(WatchTimeout(i)) /\ WF_vars(WatchCancel(i))
    /\ WF_vars(WaitPoint)

\* Runs without --dev that block at the wait point.
LiveInit == Init /\ opts.Wait

\* Blocking runs without --dev, with the scheduling they can rely on.
LiveSpec == LiveInit /\ [][Next]_vars /\ Fairness

\* run from its start with one of the given dump formats: runTest on a file
\* or runTestGroup on a directory of *.feature files, without --dev; the
\* loaded configuration,
\* the Instances of the cluster and the files are any. A Test of an earlier
\* run can only be there when the namespace is not a fresh one.
RunFrom(formats) ==
    /\ files \in FileLists
    /\ opts \in [Wait : BOOLEAN, Logs : BOOLEAN, Dev : {FALSE}, DumpFormat : formats]
    /\ opts.Logs => opts.Wait
    /\ \E dir \in BOOLEAN, cfg \in RunConfigs :
         /\ ~dir => Len(files) = 1
         /\ ~cfg.Temporary => cfg.Roles = 0
         /\ ~cfg.Recursive
         /\ outer = [pc |-> "client", dir |-> dir, cfg |-> cfg, deferPost |-> FALSE,
                     deferDelete |-> FALSE, ops |-> <<>>, outcome |-> "none"]
         /\ cluster \in IF cfg.Temporary THEN {{}} ELSE {{}, {OldTest}}
    /\ \E insts \in InstanceSetups :
         /\ ~outer.cfg.Temporary => insts.local = "global" /\ insts.otherGlobal
         /\ env = [PlainEnv EXCEPT !.insts = insts]
    /\ tree = FilesOnly
    /\ stack = <<>>
    /\ hook = NoHook
    /\ lookup = NoLookup
    /\ timing = NoTiming
    /\ loads = <<>>
    /\ idx = 1
    /\ pc = "begin"
    /\ existed = FALSE
    /\ clone = NoClone
    /\ calls = <<>>
    /\ call = [i \in Slots |-> NoCall]
    /\ ret = NoRet
    /\ results = <<>>
    /\ crashed = FALSE

\* Runs without --dump.
RunInit == RunFrom({""})

\* Runs with --dump: yaml, json, or a format that is not supported.
DumpInit == RunFrom(DumpFormats \ {""})

OuterNext ==
    \/ GetCmdClient
    \/ GetRunConfig
    \/ InitializeTempNamespace
    \/ FindInstance
    \/ ListInstances
    \/ SetupCluster
    \/ SetupOperator
    \/ UploadArtifacts
    \/ ReadDir
    \/ PreSteps
    \/ LoopEnd
    \/ PostSteps
    \/ DeleteTempNamespace
    \/ Exit

\* The frame of run with createAndRunTest as Begin, Reconcile, WaitPoint.
RunNext ==
    \/ OuterNext
    \/ Begin
    \/ Reconcile
    \/ WaitPoint

RunSpec == RunInit /\ [][RunNext]_vars

\* run from its start with any dump format, empty or not, under the
\* configurations without roles and Post steps and with at most one Pre step.
SuiteInit ==
    /\ RunFrom(DumpFormats)
    /\ outer.cfg.Roles = 0 /\ Len(outer.cfg.Pre) <= 1 /\ outer.cfg.Post = <<>>

SuiteSpec == SuiteInit /\ [][RunNext]_vars

\* With --dump createAndRunTest ends at its dump switch.
DumpNext ==
    \/ OuterNext
    \/ Begin

DumpSpec == DumpInit /\ [][DumpNext]_vars

\* The configurations of the group runs followed through subdirectories: no
\* roles, at most one step before and after, a temporary namespace removed
\* again.
GroupConfigs ==
    {c \in RunConfigs :
        /\ c.Roles = 0 /\ c.AutoRemove = c.Temporary
        /\ c.Pre \in {<<>>, <<"run">>} /\ c.Post = c.Pre}

\* The subdirectories: one file (the last of DirEntries), matching or not,
\* under a configuration of its own.
SubDirs ==
    {d \in [files : {<<DirEntries[Len(DirEntries)]>>}, kinds : [1..1 -> {"feature", "other"}],
            cfg : GroupConfigs] :
        ~d.cfg.Recursive}

\* runTestGroup on a directory of MaxFiles entries of any kind, every
\* subdirectory alike, on a cluster with a global operator; without --dev,
\* --dump and --logs.
GroupInit ==
    /\ files \in {f \in FileLists : Len(f) = MaxFiles}
    /\ opts \in [Wait : BOOLEAN, Logs : {FALSE}, Dev : {FALSE}, DumpFormat : {""}]
    /\ \E cfg \in GroupConfigs : outer = NewFrame(cfg, <<>>)
    /\ cluster = {}
    /\ env = [PlainEnv EXCEPT !.insts = [local |-> "global", otherGlobal |-> TRUE]]
    /\ \E kinds \in [1..Len(files) -> EntryKinds], sub \in SubDirs :
         tree = [kinds |-> kinds, sub |-> sub]
    /\ stack = <<>>
    /\ hook = NoHook
    /\ lookup = NoLookup
    /\ timing = NoTiming
    /\ loads = <<>>
    /\ idx = 1
    /\ pc = "begin"
    /\ existed = FALSE
    /\ clone = NoClone
    /\ calls = <<>>
    /\ call = [i \in Slots |-> NoCall]
    /\ ret = NoRet
    /\ results = <<>>
    /\ crashed = FALSE

\* runTestGroup with its recursion; createAndRunTest as in RunNext.
GroupNext ==
    \/ GetCmdClient
    \/ GetRunConfig
    \/ InitializeTempNamespace
    \/ FindInstance
    \/ UploadArtifacts
    \/ ReadDir
    \/ PreSteps
    \/ Begin
    \/ Reconcile
    \/ WaitPoint
    \/ SkipEntry
    \/ Descend
    \/ Ascend
    \/ LoopEnd
    \/ PostSteps
    \/ DeleteTempNamespace
    \/ Exit

GroupSpec == GroupInit /\ [][GroupNext]_vars

\* skipStep on any condition of up to MaxClauses clauses, any host; nothing
\* else runs.
SkipInit ==
    /\ \E cs \in ClauseLists, g \in OSNames, e \in Environs :
         hook = [If |-> Join(cs), goos |-> g, environ |-> e, skip |-> "none", clauses |-> cs]
    /\ files = <<DirEntries[Len(DirEntries)]>>
    /\ opts = [Wait |-> FALSE, Logs |-> FALSE, Dev |-> FALSE, DumpFormat |-> ""]
    /\ cluster = {}
    /\ idx = 1
    /\ pc = "begin"
    /\ existed = FALSE
    /\ clone = NoClone
    /\ calls = <<>>
    /\ call = [i \in Slots |-> NoCall]
    /\ ret = NoRet
    /\ results = <<>>
    /\ crashed = FALSE
    /\ outer = [AtFiles EXCEPT !.pc = "pre"]
    /\ env = PlainEnv
    /\ tree = FilesOnly
    /\ stack = <<>>
    /\ lookup = NoLookup
    /\ timing = NoTiming
    /\ loads = <<>>

SkipNext == CallSkipStep

SkipSpec == SkipInit /\ [][SkipNext]_vars

\* getRunConfig on any kind of source, with or without default namespace,
\* whatever config.LoadConfig answers; nothing else runs.
ConfigInit ==
    /\ \E source \in {"remote", "dir", "file"}, namespace \in {<<>>, <<"d">>},
          ok \in BOOLEAN, cfg \in NamespaceConfigs :
         /\ ~ok => cfg = NewWithDefaults
         /\ lookup = [NoLookup EXCEPT !.source = source, !.namespace = namespace,
                                      !.loaded = [ok |-> ok, cfg |-> cfg]]
    /\ hook = NoHook
    /\ timing = NoTiming
    /\ loads = <<>>
    /\ files = <<DirEntries[Len(DirEntries)]>>
    /\ opts = [Wait |-> FALSE, Logs |-> FALSE, Dev |-> FALSE, DumpFormat |-> ""]
    /\ cluster = {}
    /\ idx = 1
    /\ pc = "begin"
    /\ existed = FALSE
    /\ clone = NoClone
    /\ calls = <<>>
    /\ call = [i \in Slots |-> NoCall]
    /\ ret = NoRet
    /\ results = <<>>
    /\ crashed = FALSE
    /\ outer = [AtFiles EXCEPT !.pc = "config"]
    /\ env = PlainEnv
    /\ tree = FilesOnly
    /\ stack = <<>>

ConfigNext == CallGetRunConfig

ConfigSpec == ConfigInit /\ [][ConfigNext]_vars

\* The watcher's choice of its timeout for any flag and any timeout of the
\* configuration; the main goroutine stands at the wait point of its one file.
TimeoutInit ==
    /\ \E flag \in DurationStrings, config \in DurationStrings :
         timing = [NoTiming EXCEPT !.flag = flag, !.config = config]
    /\ loads = <<>>
    /\ hook = NoHook
    /\ lookup = NoLookup
    /\ files = <<DirEntries[Len(DirEntries)]>>
    /\ opts = [Wait |-> TRUE, Logs |-> FALSE, Dev |-> FALSE, DumpFormat |-> ""]
    /\ cluster = {}
    /\ idx = 1
    /\ pc = "wait"
    /\ existed = FALSE
    /\ clone = NoClone
    /\ calls = <<>>
    /\ call = [i \in Slots |-> NoCall]
    /\ ret = NoRet
    /\ results = <<>>
    /\ crashed = FALSE
    /\ outer = AtFiles
    /\ env = PlainEnv
    /\ tree = FilesOnly
    /\ stack = <<>>

TimeoutNext == ChooseTimeout

TimeoutSpec == TimeoutInit /\ [][TimeoutNext]_vars

\* Single-file runs without --dev and --dump that are asked to load any list
\* of resources, property files and settings, readable or not.
LoadInit ==
    /\ files \in {f \in FileLists : Len(f) = 1}
    /\ opts \in [Wait : BOOLEAN, Logs : BOOLEAN, Dev : {FALSE}, DumpFormat : {""}]
    /\ opts.Logs => opts.Wait
    /\ loads \in LoadLists
    /\ cluster \in {{}, {OldTest}}
    /\ idx = 1
    /\ pc = "begin"
    /\ existed = FALSE
    /\ clone = NoClone
    /\ calls = <<>>
    /\ call = [i \in Slots |-> NoCall]
    /\ ret = NoRet
    /\ results = <<>>
    /\ crashed = FALSE
    /\ outer = [AtFiles EXCEPT !.dir = FALSE]
    /\ env = PlainEnv
    /\ tree = FilesOnly
    /\ stack = <<>>
    /\ hook = NoHook
    /\ lookup = NoLookup
    /\ timing = NoTiming

LoadSpec == LoadInit /\ [][Next]_vars

DevNext ==
    \/ MainNext
    \/ EnvNext
    \/ \E i \in Slots : DevGet(i)
    \/ \E i \in Slots : DevIter(i)

\* Runs with --dev, of a single file.
DevInit == InitFor(TRUE) /\ Len(files) = 1

DevSpec == DevInit /\ [][DevNext]_vars

\* ---------------------------------------------------------------- claims

Last(q) == q[Len(q)]

Failed(r) == r \in {"error", "conflict"}

\* The main goroutine is past the reconciliation of the current file.
Reconciled == Alive /\ pc \in {"spawn", "logs", "wait"}

\* C1: submissions of one derived name never leave two Tests of that name on
\* the cluster; a submission creates the Test exactly when none was there and
\* otherwise goes through the update path on that object; and when the update
\* path has succeeded, the status its last push wrote is the zero value.
C1_UpdateInPlace ==
    /\ \A o1, o2 \in cluster : o1.name = o2.name => o1 = o2
    /\ Alive /\ pc \in {"get", "pushUpdating", "update", "reset"}
         => call[idx].pre /\ existed /\ calls[1].res = "exists"
    /\ Reconciled =>
         /\ Exists(Name)
         /\ existed = call[idx].pre
         /\ existed => Last(calls).op = "StatusReset" /\ Last(calls).res = "ok"
         /\ ~existed => Last(calls).op = "Create" /\ Last(calls).res = "ok"
         /\ existed /\ Obj(Name).statusRv = call[idx].baseRv
              => Obj(Name).status = [phase |-> "None", results |-> <<>>]

\* C1 witness: an update-path submission has succeeded and the Test on the
\* cluster still carries the status the reset wrote.
C1_Witness ==
    /\ Reconciled /\ existed
    /\ Obj(Name).statusRv = call[idx].baseRv
    /\ Obj(Name).status.phase = "None"

\* The cluster calls of the update path, in order.
UpdatePath == <<"Create", "Get", "StatusUpdating", "Update", "StatusReset">>

\* C2: on the update path the client issues Create (answered "already
\* exists"), Get, the Updating status push, the spec Update carrying the
\* resourceVersion of the fetched copy, and the zero-status push, in this
\* order; a call is issued only after every earlier one succeeded, and a
\* failing call is the last one and makes the submission return an error.
C2_UpdateOrder ==
    /\ Len(calls) <= Len(UpdatePath)
    /\ \A k \in DOMAIN calls :
         /\ calls[k].op = UpdatePath[k]
         /\ k < Len(calls) => calls[k].res = (IF k = 1 THEN "exists" ELSE "ok")
    /\ Len(calls) >= 4 => calls[4].rv = clone.rv /\ calls[4].rv = calls[3].rv + 1
    /\ calls # <<>> /\ Failed(Last(calls).res)
         => pc = "begin" /\ ret.slot = idx - 1 /\ ~ret.test /\ ret.err = "resource"

\* C2 witness: all five calls of the update path were issued and succeeded.
C2_Witness == Len(calls) = 5 /\ Last(calls).res = "ok"

\* How often the current submission issued the call that came last.
Attempts == Cardinality({k \in DOMAIN calls : calls[k].op = Last(calls).op})

\* C3 as claimed: a submission that ended on a resource-version conflict had
\* tried the rejected write twice.
C3_RetriesOnce ==
    calls # <<>> /\ Last(calls).res = "conflict" /\ pc = "begin" => Attempts = 2

\* C3 amended: a write rejected with a resource-version conflict is not
\* retried: it was issued once, it is the last cluster call of the submission,
\* and the submission returns no Test and an error, recorded as an error suite.
C3_NoRetry ==
    \A k \in DOMAIN calls :
        calls[k].res = "conflict" =>
            /\ k = Len(calls) /\ Attempts = 1
            /\ pc = "begin" /\ ret.slot = idx - 1 /\ ~ret.test /\ ret.err = "resource"
            /\ Last(results) = [src |-> files[ret.slot], errors |-> <<"resource">>]

\* C3 witness: the controller wrote between the client's Get and its Updating
\* push, and the push was rejected.
C3_Witness ==
    /\ calls # <<>> /\ Last(calls).op = "StatusUpdating" /\ Last(calls).res = "conflict"
    /\ Obj(SanitizeName(files[ret.slot])).rv > Last(calls).rv

\* A terminal phase in the captured status was read from a status written
\* after the write that ended the call's reconciliation.
Fresh(f) == f.status \in {"Passed", "Failed", "Error", "Deleting"} => f.seenRv > f.baseRv

\* C4: a watcher started after an update-path submission never ends on, and
\* the call never reports, a terminal phase that was on the Test before the
\* client's status reset.
C4_NoStalePhase ==
    /\ \A i \in Slots : call[i].pre => Fresh(call[i])
    /\ ret.frame.pre => Fresh(ret.frame)

\* C4 witness: a re-submitted Test whose previous run had ended reports the
\* terminal phase of its new run.
C4_Witness ==
    /\ ret.via = "wait" /\ ret.frame.pre
    /\ ret.frame.status = "Failed" /\ ret.frame.seenRv > ret.frame.baseRv

\* What the status variable must hold given the phases the polls read.
Reported(f) == IF f.seen = "None" THEN "New" ELSE f.seen

\* C5: the wait ends on the predicate exactly when the phase read is
\* Deleting, Error, Passed or Failed, and goes on for every other phase; the
\* status a call reports is the last phase other than None its polls read,
\* New when there was none, and never None.
C5_TerminalPhases ==
    /\ \A i \in Slots :
         LET f == call[i]
         IN /\ f.watcher \in {"cancel", "done"} /\ f.err = "nil" /\ i = idx
                 => f.test.status.phase \in {"Deleting", "Error", "Passed", "Failed"}
            /\ f.watcher = "poll"
                 => f.test.status.phase \notin {"Deleting", "Error", "Passed", "Failed"}
            /\ f.watcher # "idle" /\ i = idx => f.status = Reported(f) /\ f.status # "None"
    /\ ret.via \in {"wait", "nowait"} =>
         /\ ret.frame.status = Reported(ret.frame)
         /\ ret.frame.status # "None"

\* C5 witness: a call returned through the wait point reporting Deleting.
C5_Witness ==
    /\ ret.via = "wait" /\ ret.frame.err = "nil"
    /\ ret.frame.status = "Deleting"

\* What holds of a call that returned through the wait point of a blocking run.
C6_AtReturn ==
    ret.via = "wait" =>
        /\ ret.frame.ctxDone /\ ret.frame.watcher = "done"
        /\ ret.err \in {"nil", "status"}
        /\ ret.frame.err = "nil" => ret.frame.status \in {"Deleting", "Error", "Passed", "Failed"}
        /\ ret.frame.err = "timeout" =>
             /\ ret.frame.status = Reported(ret.frame)
             /\ ret.frame.status \in {"New", "Running", "Updating"}
             /\ ret.err = "nil"

\* C6: in wait mode without dev the wait point always unblocks; the call
\* returns only after the watcher cancelled the context, on a terminal phase
\* or on the timeout; after a timeout the reported status is the last phase
\* read (New if none), no terminal phase is forced, and the timeout error is
\* not what the call returns.
C6_WaitUnblocks ==
    /\ \A i \in 1..MaxFiles : (pc = "wait" /\ idx = i) ~> (idx > i)
    /\ []C6_AtReturn

\* C6 witness: the wait timed out while the test was running, and the call
\* returned through the wait point.
C6_Witness ==
    /\ ret.via = "wait" /\ ret.frame.err = "timeout"
    /\ ret.frame.status = "Running" /\ ret.err = "nil"

\* C7: in dev mode, once the route watcher has found the ingress endpoint and
\* finished, the shared context is cancelled (so the wait point can release).
C7_RouteFoundCancels ==
    \A i \in Slots : (call[i].route /\ call[i].watcher = "done") => call[i].ctxDone

\* C8: in dev mode the route loop is bounded by the ceiling: past ceiling+1
\* iterations the route watcher has stopped.
C8_LoopBounded ==
    \A i \in Slots : call[i].waitTime > RouteCeiling + 1 => call[i].watcher # "devLoop"

\* C9: when a blocking call returns through the wait point, its watcher has
\* stopped and its log follower, if one was started, has flushed.
C9_StopTogether ==
    ret.via = "wait" =>
        /\ ret.frame.watcher = "done"
        /\ ret.frame.follower \in {"idle", "flushed"}

\* The calls whose phase watcher is still at work.
ActiveWatchers == {i \in Slots : call[i].watcher \in {"poll", "cancel"}}

\* The calls whose log follower streams under a context not yet cancelled.
ActiveFollowers == {i \in Slots : call[i].follower = "streaming" /\ ~call[i].ctxDone}

\* No call of the run so far ended on a failure to start the log follower.
NoLogFailure == \A k \in 1..Len(results) : results[k].errors # <<"log">>

OpsOf(op) == {i \in 1..Len(outer.ops) : outer.ops[i].op = op}

\* runTest / runTestGroup has returned (its deferred calls included).
Returned == outer.pc \in {"exit", "done"}

\* C11: once the Pre steps of the source were started, the Post steps are run
\* exactly once before the run of the source returns, never before the Pre
\* steps and never twice, whatever failed in between.
C11_PostOnce ==
    /\ Cardinality(OpsOf("RunPost")) <= 1
    /\ \A i \in OpsOf("RunPost") : \E j \in OpsOf("RunPre") : j < i
    /\ \A i \in OpsOf("Post") : \E j \in OpsOf("RunPost") : j < i
    /\ \A i, j \in OpsOf("Post") : outer.ops[i].arg = outer.ops[j].arg => i = j
    /\ (Returned /\ OpsOf("RunPre") # {}) => Cardinality(OpsOf("RunPost")) = 1

\* C11 witness: the run returned after a Pre step failed and a Post step ran.
C11_Witness ==
    /\ Returned
    /\ \E i \in OpsOf("Pre") : ~outer.ops[i].ok
    /\ OpsOf("Post") # {}

\* A Pre step failed.
PreFailed == \E i \in OpsOf("Pre") : ~outer.ops[i].ok

\* C12: after a Pre step failed no later Pre step is executed, no Test is
\* submitted for the source (for no file of the directory), the results hold
\* exactly one suite, the error suite of the source, and the Post steps have
\* run once when the run returns.
C12_PreFailure ==
    PreFailed =>
        /\ \A i, j \in OpsOf("Pre") : ~outer.ops[i].ok => j <= i
        /\ OpsOf("Submit") = {} /\ idx = 1 /\ pc = "begin" /\ calls = <<>>
        /\ results = <<[src |-> Source, errors |-> <<"pre">>]>>
        /\ Returned => Cardinality(OpsOf("RunPost")) = 1

\* C12 witness: a group run over two files returned after the first of two
\* Pre steps failed.
C12_Witness ==
    /\ Returned /\ outer.dir /\ Len(files) = 2
    /\ outer.cfg.Pre = <<"run", "run">>
    /\ \E i \in OpsOf("Pre") : outer.ops[i].arg = 1 /\ ~outer.ops[i].ok

\* A Post step failed.
PostFailed == \E i \in OpsOf("Post") : ~outer.ops[i].ok

\* The suites due once the Post steps have run: the error suite of a failed
\* Pre step, else one suite per file gone through.
SuitesDue == IF PreFailed THEN 1 ELSE idx - 1

\* C13: the Post steps leave the results as they are, failing or not; after a
\* failed Post step the results hold the suites of the Pre steps and the files
\* only, and the run returns an error exactly when one of those carries an
\* error: a run whose suites are clean is reported as successful.
C13_PostFailureSilent ==
    /\ [][outer.pc = "post" => results' = results]_vars
    /\ []((PostFailed /\ outer.pc \in {"delete", "exit", "done"}) => Len(results) = SuitesDue)
    /\ []((PostFailed /\ outer.pc = "done") =>
            (outer.outcome = "nil" <=> \A k \in 1..Len(results) : results[k].errors = <<>>))

\* C13 witness: the run returned successful although its Post step failed
\* after a test that passed.
C13_Witness ==
    /\ outer.pc = "done" /\ PostFailed /\ outer.outcome = "nil"
    /\ Len(results) = 1 /\ ret.test /\ ret.frame.status = "Passed"

\* The run created its temporary namespace.
NamespaceCreated == \E i \in OpsOf("NsCreate") : outer.ops[i].ok

\* C14: with Temporary and AutoRemove, a run that waits has issued exactly
\* one delete of the namespace it created when it returns, and issued it
\* after the last submission and its wait; a run that does not wait has
\* issued none and the namespace is still there.
C14_DeletedAfterWait ==
    /\ \A i \in OpsOf("NsDelete"), j \in OpsOf("Submit") : j < i
    /\ (outer.pc = "done" /\ NamespaceCreated /\ outer.cfg.AutoRemove) =>
          IF opts.Wait
          THEN Cardinality(OpsOf("NsDelete")) = 1
          ELSE OpsOf("NsDelete") = {} /\ env.ns = "present"


\* C15: a delete of a namespace is registered or issued only in a run with
\* Temporary, AutoRemove and Wait all set, only after the run created the
\* namespace itself, and at most once; a run on a configured namespace
\* issues none.
C15_DeleteGuarded ==
    /\ (outer.deferDelete \/ outer.pc = "delete" \/ OpsOf("NsDelete") # {} \/ env.ns = "deleted") =>
          /\ outer.cfg.Temporary /\ outer.cfg.AutoRemove /\ opts.Wait
          /\ NamespaceCreated
    /\ Cardinality(OpsOf("NsDelete")) <= 1

\* C15 witness: a run returned after deleting the namespace it had created.
C15_Witness ==
    /\ outer.pc = "done" /\ NamespaceCreated /\ env.ns = "deleted"
    /\ OpsOf("Submit") # {}


\* The Pre steps succeeded: the run went into its loop over the files.
LoopEntered == \E i \in OpsOf("RunPre") : outer.ops[i].ok

\* C16: in a group run, when the delete of the namespace is due or issued,
\* the loop over the files is over and no call is in progress - or the run
\* was aborted before its first file; no file is submitted after the delete.
C16_DeleteAfterGroup ==
    (outer.dir /\ (outer.pc = "delete" \/ OpsOf("NsDelete") # {})) =>
        /\ pc = "begin"
        /\ IF LoopEntered THEN idx > Len(files) ELSE idx = 1 /\ OpsOf("Submit") = {}
        /\ \A i \in OpsOf("NsDelete") : \A j \in OpsOf("Submit") : j < i

\* C16 witness: a group run deleted its namespace after submitting both of
\* its two files.
C16_Witness ==
    /\ outer.dir /\ Len(files) = 2 /\ OpsOf("NsDelete") # {}
    /\ Cardinality(OpsOf("Submit")) = 2


\* The delete of the namespace was issued and failed.
DeleteFailed == \E i \in OpsOf("NsDelete") : ~outer.ops[i].ok

\* C17: deleteTempNamespace leaves the results as they are; after a failed
\* delete the results hold one suite per file gone through (or the one error
\* suite of an aborted run), and the run returns an error exactly when one of
\* these carries an error.
C17_DeleteFailureSilent ==
    /\ [][outer.pc = "delete" => results' = results]_vars
    /\ [](DeleteFailed => Len(results) = IF LoopEntered THEN idx - 1 ELSE 1)
    /\ []((DeleteFailed /\ outer.pc = "done") =>
            (outer.outcome = "nil" <=> \A k \in 1..Len(results) : results[k].errors = <<>>))

\* C17 witness: the run returned successful, its test passed, the delete of
\* its namespace failed and the namespace is still there.
C17_Witness ==
    /\ outer.pc = "done" /\ DeleteFailed /\ env.ns = "present"
    /\ outer.outcome = "nil" /\ ret.test /\ ret.frame.status = "Passed"


\* The create of the temporary namespace was issued and failed.
CreateFailed == \E i \in OpsOf("NsCreate") : ~outer.ops[i].ok

\* C18: after the create of the temporary namespace failed the run of the
\* source has returned; the failed create is the only call it ever made (no
\* Instance probe or listing, no cluster setup, no install, no Pre or Post
\* step, no submission, no delete), nothing is deferred, and the results are
\* the one error suite of the source.
C18_CreateFailureAborts ==
    CreateFailed =>
        /\ outer.ops = <<Op("NsCreate", 0, FALSE)>>
        /\ Returned /\ ~outer.deferPost /\ ~outer.deferDelete
        /\ idx = 1 /\ pc = "begin" /\ calls = <<>>
        /\ env.ns = "absent" /\ ~env.operator
        /\ results = <<[src |-> Source, errors |-> <<"namespace">>]>>

\* C18 witness: a group run with steps and AutoRemove returned an error after
\* the create of its namespace failed.
C18_Witness ==
    /\ CreateFailed /\ outer.pc = "done" /\ outer.outcome = "error"
    /\ outer.dir /\ outer.cfg.AutoRemove /\ opts.Wait
    /\ outer.cfg.Pre # <<>> /\ outer.cfg.Post # <<>>


\* C19: when some Instance of the cluster is global no operator is installed
\* into the temporary namespace, whatever Instance the invocation's namespace
\* holds; and an operator is installed at most once.
C19_GlobalReused ==
    /\ (env.insts.local = "global" \/ env.insts.otherGlobal) => OpsOf("Install") = {}
    /\ Cardinality(OpsOf("Install")) <= 1


\* The calls of operator bootstrap.
BootstrapOps == {"InstanceGet", "InstanceList", "SetupCluster", "Install", "Role"}

\* C20: Instance probe and listing, cluster setup, operator install and role
\* application happen only with Namespace.Temporary set, and only after the
\* temporary namespace was created; a run on a configured namespace makes
\* none of these calls and installs nothing.
C20_BootstrapOnlyTemporary ==
    /\ \A i \in 1..Len(outer.ops) :
          outer.ops[i].op \in BootstrapOps =>
              /\ outer.cfg.Temporary
              /\ \E j \in OpsOf("NsCreate") : j < i /\ outer.ops[j].ok
    /\ ~outer.cfg.Temporary =>
          /\ OpsOf("NsCreate") = {} /\ env.ns = "absent" /\ ~env.operator
          /\ outer.pc \notin {"namespace", "probe", "list", "setup", "operator"}

\* C20 witness: a run on a configured namespace submitted its test and
\* returned, on a cluster that has Instances.
C20_Witness ==
    /\ ~outer.cfg.Temporary /\ outer.pc = "done"
    /\ env.insts.local # "none"
    /\ \E i \in OpsOf("Submit") : outer.ops[i].ok


\* The run of the source was aborted during setup: its results are the one
\* error suite of the source, no Pre step has run, no Test was submitted and
\* the run is on its way out.
SetupAborted ==
    /\ Len(results) = 1 /\ results[1].src = Source /\ Len(results[1].errors) = 1
    /\ OpsOf("RunPre") = {} /\ OpsOf("Pre") = {} /\ OpsOf("Submit") = {}
    /\ idx = 1 /\ pc = "begin"
    /\ outer.pc \in {"post", "delete", "exit", "done"}

\* C21: a probe of the default namespace that finds no Instance is followed
\* by the listing of the Instances of the cluster, or it was an error and the
\* run of the source is aborted; every failed listing, cluster setup, operator
\* install and role application aborts the run of the source: one error
\* suite, no Pre step, no Test submitted.
C21_BootstrapErrorsFatal ==
    \A i \in 1..Len(outer.ops) :
        LET o == outer.ops[i]
        IN  /\ (o.op = "InstanceGet" /\ ~o.ok) =>
                  \/ i = Len(outer.ops) /\ outer.pc = "list"
                  \/ i < Len(outer.ops) /\ outer.ops[i + 1].op = "InstanceList"
                  \/ SetupAborted
            /\ (o.op \in {"InstanceList", "SetupCluster", "Install", "Role"} /\ ~o.ok) =>
                  SetupAborted


\* The run prints the Test: --dump=yaml or --dump=json.
DumpMode == opts.DumpFormat \in {"yaml", "json"}

\* The calls against the cluster the frame of a run can make.
ClusterOps ==
    {"NsCreate", "InstanceGet", "InstanceList", "SetupCluster", "Install", "Role", "Submit",
     "NsDelete"}

\* C22: in dump mode the run makes no call against the cluster, whatever the
\* run configuration: no create, get or update of a Test, no create of a
\* namespace, no Instance probe or listing, no install; the Tests, the
\* namespaces and the operators of the cluster stay as they were and no suite
\* is recorded for a printed Test.
C22_DumpTouchesNothing ==
    DumpMode =>
        /\ \A i \in 1..Len(outer.ops) : outer.ops[i].op \notin ClusterOps
        /\ calls = <<>> /\ cluster \subseteq {OldTest}
        /\ env.ns = "absent" /\ ~env.operator
        /\ ret.via = "dump" => ~ret.test /\ ret.err = "nil"


\* The dump format is neither empty nor one createAndRunTest can print.
InvalidFormat == opts.DumpFormat \notin {"", "yaml", "json"}

\* C23: under a dump format other than yaml and json no Test is created,
\* fetched or updated; every createAndRunTest call returns an error and no
\* Test, the file is recorded as a suite with that one error, and the run
\* returns an error.
C23_InvalidFormatRejected ==
    InvalidFormat =>
        /\ calls = <<>> /\ OpsOf("Submit") = {} /\ cluster \subseteq {OldTest}
        /\ pc = "begin"
        /\ ret.slot > 0 =>
              /\ ~ret.test /\ ret.err \in {"name", "load", "format"}
              /\ Len(results) >= ret.slot
              /\ results[ret.slot] = [src |-> files[ret.slot], errors |-> <<ret.err>>]
        /\ outer.pc = "done" => outer.outcome = "error"

\* C23 witness: a group run over two files returned an error after both
\* files were rejected for the dump format.
C23_Witness ==
    /\ InvalidFormat /\ outer.pc = "done" /\ outer.outcome = "error"
    /\ outer.dir /\ Len(files) = 2 /\ ret.slot = 2 /\ ret.err = "format"
    /\ results[1].errors = <<"format">>


\* The sum of the arguments of the given entries of the record of calls.
RECURSIVE SumArgs(_)
SumArgs(I) ==
    IF I = {} THEN 0
    ELSE LET i == CHOOSE j \in I : TRUE
         IN  outer.ops[i].arg + SumArgs(I \ {i})

\* The loop of the directory the run was invoked on is over, after a setup
\* that succeeded.
GroupDone ==
    /\ stack = <<>> /\ outer.dir /\ outer.pc \in {"post", "delete", "exit", "done"}
    /\ \E i \in OpsOf("RunPre") : outer.ops[i].ok /\ \A j \in OpsOf("Enter") : i < j

Range(q) == {q[k] : k \in 1..Len(q)}

\* C26: after createAndRunTest returned a Test together with an error, the
\* suite stored last holds the error's message among its errors, next to the
\* errors the Test's status reports.
C26_ErrorInSuite ==
    (ret.test /\ ret.err # "nil") =>
        /\ results # <<>>
        /\ ret.err \in Range(Last(results).errors)
        /\ Range(ret.frame.test.status.results) \subseteq Range(Last(results).errors)


\* How deep in the recursion entry i of the record of calls was made.
DepthAt(i) ==
    Cardinality({j \in OpsOf("Enter") : j < i}) - Cardinality({j \in OpsOf("Leave") : j < i})

\* The configuration of the runTestGroup call at the given depth.
ConfigAt(d) ==
    IF d > 0 THEN tree.sub.cfg
    ELSE IF stack = <<>> THEN outer.cfg ELSE stack[Len(stack)].outer.cfg

\* The namespace a call at the given depth submits to: the temporary
\* namespace the call created, or the invocation's namespace.
NamespaceAt(d) == IF ConfigAt(d).Temporary THEN <<"yaks", d>> ELSE <<"default">>

\* C27: during one group run at most one temporary namespace is created, the
\* Pre steps run at most once and before every submission, the Post steps at
\* most once and after every submission, and all files of the run, those of
\* subdirectories included, are submitted to one namespace.
C27_ProvisionedOnce ==
    /\ Cardinality({i \in OpsOf("NsCreate") : outer.ops[i].ok}) <= 1
    /\ Cardinality(OpsOf("RunPre")) <= 1
    /\ Cardinality(OpsOf("RunPost")) <= 1
    /\ \A i \in OpsOf("RunPre"), j \in OpsOf("Submit") : i < j
    /\ \A i \in OpsOf("RunPost"), j \in OpsOf("Submit") : j < i
    /\ \A i, j \in OpsOf("Submit") : NamespaceAt(DepthAt(i)) = NamespaceAt(DepthAt(j))


\* What a clause asks of the host.
Passes(c, h) ==
    CASE c.kind = "os=" -> c.value = h.goos
      [] c.kind = "env=" -> IsSet(h.environ, c.name) /\ LookupEnv(h.environ, c.name) = c.value
      [] c.kind = "env" -> IsSet(h.environ, c.name)
      [] OTHER -> FALSE

\* skipStep has answered for a condition written from os=V, env:N=V and
\* env:N clauses.
Answered ==
    /\ hook.skip # "none"
    /\ \A k \in 1..Len(hook.clauses) : hook.clauses[k].kind # "os"

\* C28: for a condition of clauses joined by " && " skipStep lets the step
\* run exactly when every clause passes - os=V when the host's OS is V,
\* env:N=V when N is set to V - and skips it otherwise; a step with an empty
\* If runs.
C28_Conjunction ==
    Answered =>
        /\ hook.skip \in {"run", "skip"}
        /\ hook.skip = "run" <=> \A k \in 1..Len(hook.clauses) : Passes(hook.clauses[k], hook)
        /\ hook.If = <<>> => hook.skip = "run"


\* The clauses without clause k.
Without(cs, k) == SubSeq(cs, 1, k - 1) \o SubSeq(cs, k + 1, Len(cs))

\* C29: a clause env:NAME without "=" changes nothing when NAME is set,
\* whatever its value: skipStep answers as it does for the condition without
\* that clause, so the clauses after it count as before; when NAME is unset
\* the step does not run: it is skipped, unless an invalid clause before it
\* ended the call.
C29_PresenceOnly ==
    \A k \in 1..Len(hook.clauses) :
        (hook.skip # "none" /\ hook.clauses[k].kind = "env") =>
            IF IsSet(hook.environ, hook.clauses[k].name)
            THEN hook.skip = skipStep([hook EXCEPT !.If = Join(Without(hook.clauses, k))])
            ELSE /\ hook.skip # "run"
                 /\ (\A j \in 1..(k - 1) : hook.clauses[j].kind # "os") => hook.skip = "skip"

\* C29 witness: a step ran whose condition checks a variable set to the
\* empty string for presence and then the OS.
C29_Witness ==
    /\ Len(hook.clauses) = 2 /\ hook.clauses[1].kind = "env"
    /\ <<hook.clauses[1].name, <<>>>> \in hook.environ
    /\ hook.clauses[2].kind = "os=" /\ hook.clauses[2].value = hook.goos
    /\ hook.skip = "run"


\* C30: a configuration getRunConfig returns without temporary namespace
\* names a namespace whenever the invocation has a default namespace, and
\* where the configuration file names none it names the default namespace -
\* for a remote file, a directory and a local file alike.
C30_NamespaceInherited ==
    (lookup.state = "config" /\ ~lookup.config.Temporary) =>
        /\ lookup.namespace # <<>> => lookup.config.Name # <<>>
        /\ (lookup.source # "remote" /\ lookup.loaded.cfg.Name = <<>>) =>
              lookup.config.Name = lookup.namespace


\* The string writes a duration.
Valid(s) == ParseDuration(s).ok

\* C31: the watcher waits for the duration of the flag timeout when the flag
\* is not empty, else of the configuration's timeout when that is not empty,
\* else of the default; when the string so chosen is no duration it waits for
\* the default's duration (an invalid flag does not fall to the
\* configuration), the error is printed, and the call goes on to the wait:
\* no suite is recorded and nothing is returned.
C31_TimeoutPrecedence ==
    timing.state = "waiting" =>
        LET first == IF timing.flag # <<>> THEN timing.flag ELSE timing.config
        IN  /\ first # <<>> /\ Valid(first) =>
                  timing.wait = ParseDuration(first).d /\ ~timing.logged
            /\ first # <<>> /\ ~Valid(first) =>
                  timing.wait = ParseDuration(DefaultTimeout).d /\ timing.logged
            /\ first = <<>> => timing.wait = ParseDuration(DefaultTimeout).d /\ ~timing.logged
            /\ timing.wait > 0
            /\ results = <<>> /\ ret = NoRet /\ ~crashed /\ pc = "wait"

\* C31 witness: the flag is no duration, the configuration names a valid
\* timeout, and the watcher waits for the default.
C31_Witness ==
    /\ timing.state = "waiting"
    /\ timing.flag = <<"5", "s", "m">> /\ timing.config = <<"1", "m">>
    /\ timing.wait = 55 * 60000 /\ timing.logged



\* The suites are those of before, or those and one more at the end.
Grows(old, new) ==
    \/ new = old
    \/ Len(new) = Len(old) + 1 /\ SubSeq(new, 1, Len(old)) = old

\* A createAndRunTest call returns in this step.
Returns == ret' # ret /\ ret'.slot > 0

\* What holds of the suites whatever the dump format: no step removes or
\* reorders a suite or appends more than one; a createAndRunTest call under
\* the empty format appends exactly one suite on its return; a setup failure
\* leaves one suite with one error; a single-file run under the empty format
\* returns with exactly one suite.
SuitesGrow ==
    /\ [][Grows(results, results')]_vars
    /\ [][(Returns /\ opts.DumpFormat = "") => Len(results') = Len(results) + 1]_vars
    /\ [](opts.DumpFormat = "" => ret.via # "dump")
    /\ []((outer.pc = "done" /\ ~LoopEntered) =>
            Len(results) = 1 /\ Len(results[1].errors) = 1 /\ results[1].src = Source)
    /\ []((outer.pc = "done" /\ ~outer.dir /\ opts.DumpFormat = "") => Len(results) = 1)
    /\ []((outer.dir /\ LoopEntered /\ opts.DumpFormat = "") => Len(results) = idx - 1)

\* C32 as claimed: in yaml/json dump mode no runTest call and no file of a
\* group run appends a suite.
C32_DumpAppendsNone ==
    /\ SuitesGrow
    /\ [](DumpMode => results = <<>>)

\* C32 amended: results only grow, by one suite at a time; under the empty
\* dump format every createAndRunTest call appends exactly one suite and a
\* setup failure gives one suite with one error; in yaml/json dump mode a call
\* appends no suite exactly when it printed the Test (it returned neither Test
\* nor error), and one error suite when it failed ahead of the dump switch.
C32_SuitePerCall ==
    /\ SuitesGrow
    /\ [][(Returns /\ DumpMode) =>
            /\ ret'.via \in {"dump", "early"} /\ ~ret'.test
            /\ ret'.via = "dump" <=> ret'.err = "nil"
            /\ ret'.via = "dump" <=> results' = results
            /\ ret'.via = "early" =>
                  results' = Append(results, [src |-> files[ret'.slot], errors |-> <<ret'.err>>])]_vars

\* C32 witness: a group run in dump mode returned after its first file failed
\* to load and its second was printed, with the one error suite of the first.
C32_Witness ==
    /\ DumpMode /\ outer.dir /\ outer.pc = "done" /\ Len(files) = 2
    /\ ret.slot = 2 /\ ret.via = "dump"
    /\ results = <<[src |-> files[1], errors |-> <<"load">>]>>



\* C33: when createAndRunTest has returned an error, no Test on the cluster
\* is in phase Updating - the phase the client pushes to hold the controller
\* off - whichever call of the update path failed.
C33_NotLeftUpdating ==
    (pc = "begin" /\ ret.slot > 0 /\ ret.err # "nil") =>
        \A o \in cluster : o.status.phase # HoldPhase



\* C34: a run with AutoRemove and Wait that created its temporary namespace
\* has issued the delete of that namespace when it returns, whatever failed
\* after the creation (operator bootstrap, upload, Pre step, submission,
\* test), for a single file and for a directory.
C34_NamespaceNeverLeaked ==
    (outer.pc = "done" /\ outer.cfg.AutoRemove /\ opts.Wait /\ NamespaceCreated) =>
        /\ OpsOf("NsDelete") # {}
        /\ \A i \in OpsOf("NsDelete") : \A j \in OpsOf("NsCreate") : j < i
        /\ (\A i \in OpsOf("NsDelete") : outer.ops[i].ok) => env.ns = "deleted"



\* The latest createAndRunTest call returned after it had started its watcher.
ReturnedAfterSpawn == ret.via \in {"wait", "nowait"} \/ (ret.via = "early" /\ ret.err = "log")

\* C35: when createAndRunTest returns after it started the watcher - from
\* the wait point, without waiting, or on a log follower that failed to
\* start - the shared context is cancelled and the watcher has finished, so
\* nothing writes the status variable while or after the return reads it.
C35_WatcherQuietAtReturn ==
    ReturnedAfterSpawn =>
        /\ ret.frame.ctxDone
        /\ ret.frame.watcher = "done"



\* The delete of the temporary namespace is due or was issued.
Teardown == outer.pc = "delete" \/ OpsOf("NsDelete") # {}

\* C36: the Post steps start only when every createAndRunTest call of the
\* source has returned - after the last submission, in wait mode after the
\* call left its wait point with the context cancelled - and no Test is
\* submitted once they started; every Post step has run before the delete of
\* the temporary namespace is issued, and the delete of a run that started
\* its Pre steps never goes without the Post steps before it.
C36_PostBetween ==
    /\ (outer.pc = "post" \/ OpsOf("RunPost") # {}) =>
          /\ pc = "begin"
          /\ LoopEntered => idx > Len(files)
          /\ opts.Wait => ret.via # "nowait"
          /\ ret.via = "wait" => ret.frame.ctxDone
    /\ \A i \in OpsOf("RunPost") \cup OpsOf("Post") : \A j \in OpsOf("Submit") : j < i
    /\ \A i \in OpsOf("NsDelete") : \A j \in OpsOf("RunPost") \cup OpsOf("Post") : j < i
    /\ (Teardown /\ OpsOf("RunPre") # {}) => OpsOf("RunPost") # {}

\* C36 witness: a waiting run returned after its test left the wait point,
\* its Post step ran and the namespace was deleted, in this order.
C36_Witness ==
    /\ outer.pc = "done" /\ opts.Wait /\ ret.via = "wait"
    /\ \E s \in OpsOf("Submit"), p \in OpsOf("Post"), d \in OpsOf("NsDelete") :
         s < p /\ p < d /\ outer.ops[d].ok



\* C37: in a group run every entry createAndRunTest is called on, and every
\* entry a call returned for (with or without suite), is a file named
\* *.feature and no directory, whatever the directory is named and whether
\* or not Recursive is set.
C37_DirectoriesNotSubmitted ==
    /\ pc # "begin" => ~IsDir(Kind(idx)) /\ HasSuffix(Kind(idx))
    /\ ret.slot > 0 => ~IsDir(Kind(ret.slot)) /\ HasSuffix(Kind(ret.slot))
    /\ \A i \in OpsOf("Submit") : DepthAt(i) = 0 /\ stack = <<>> => ~IsDir(Kind(outer.ops[i].arg))



\* The errors createAndRunTest returns ahead of its dump switch.
PrepareErrors == {"name", "load", "loadResource", "loadProperty", "loadSettings"}

\* The file a call in progress, or else the call that returned last, is about.
Current == IF pc = "begin" THEN ret.slot ELSE idx

\* The derived name is empty or a file after the source cannot be loaded.
PrepareFails == SanitizeName(files[Current]) = <<>> \/ \E k \in 1..Len(loads) : ~loads[k].ok

\* The kinds of the files that cannot be loaded and come after readable
\* files only.
FirstUnreadable ==
    {loads[k].kind : k \in {k \in 1..Len(loads) : ~loads[k].ok /\ \A j \in 1..(k - 1) : loads[j].ok}}

\* C38: a createAndRunTest call whose derived name is empty or that cannot
\* load its source, a resource, a property file or the settings file returns
\* the error of the first of these, no Test, and has issued no call for the
\* Test and started neither watcher nor log follower; the step that returns
\* leaves the Tests of the cluster as they are; and only a call whose name
\* is not empty and whose files all load goes on to Create.
C38_EarlyErrorsTouchNothing ==
    /\ [](ret.err \in PrepareErrors =>
            /\ ~ret.test /\ ret.via = "early" /\ calls = <<>>
            /\ ret.frame = NoCall
            /\ \A i \in Slots : call[i].watcher = "idle" /\ call[i].follower = "idle"
            /\ cluster \subseteq {OldTest}
            /\ Last(results) = [src |-> files[ret.slot], errors |-> <<ret.err>>])
    /\ []((ret.slot > 0 /\ FirstUnreadable # {}) =>
            ret.err \in {"name", "load"} \cup {LoadError(kind) : kind \in FirstUnreadable})
    /\ []((ret.slot > 0 /\ SanitizeName(files[ret.slot]) = <<>>) => ret.err = "name")
    /\ []((pc # "begin" \/ calls # <<>>) => ~PrepareFails)
    /\ [][ret'.err \in PrepareErrors => cluster' = cluster]_vars

\* C38 witness: the source and the resources loaded, the settings file did
\* not, and the call returned its error with the Test of an earlier run
\* still on the cluster as it was.
C38_Witness ==
    /\ ret.err = "loadSettings" /\ ret.slot = 1 /\ cluster = {OldTest}
    /\ Len(loads) = 4 /\ FirstUnreadable = {"settings"}
    /\ SanitizeName(files[1]) = OldTest.name


====
